---------------------------- MODULE Spec2Model ----------------------------
(***************************************************************************)
(* A model of the DevOS orchestration core:                                *)
(*   - ExecutionPipeline (ai/core/executor.py): execute_goal and its       *)
(*     stages, the self-repair loop and the failure classifier;            *)
(*   - run_command and the file helpers it relies on (ai/core/tools.py);   *)
(*   - Memory (ai/core/memory.py): the pattern archive and the counters.   *)
(* Texts (command output, error messages, file contents) are TLA+ strings  *)
(* and the substring tests of the code are computed on them character by   *)
(* character.                                                              *)
(***************************************************************************)
EXTENDS Integers, Sequences, FiniteSets, TLC

VARIABLES
    \* ---- one execute_goal run (executor.py) ----
    pc,          \* position of the run: "idle", "setup", "codegen", "verify",
                 \* "repair", "repair_end", "commit", "return", "done"
    goal,        \* the goal dict of the run
    llm,         \* the generation backend of the pipeline (self.llm)
    report,      \* the report dict: goal, path, stages, success
    test_passed, \* local variable of execute_goal (FALSE until Verify sets it)
    attempt,     \* loop variable of _stage_repair (0-based)
    returned,    \* <<success>> once execute_goal has returned, <<>> before
    fs,          \* the file system: path -> content, or Missing
    commits,     \* number of commits in the goal's repository
    hist,        \* history of the run: the check commands run, the fixes, the raises
    \* ---- Memory (memory.py) ----
    state,       \* self.state
    patterns,    \* self.patterns
    patterns_file, \* content of patterns.json
    state_file,  \* content of state.json
    calls,       \* history: number of record_success / record_failure calls,
                 \* and the last register_project / update_project call
    projects,    \* self.projects
    projects_file, \* content of projects.json
    history_file,  \* content of history.jsonl
    now,         \* time.time(), a logical clock
    mem,         \* the Memory object: "down" (none yet), "up", or "crashed"
                 \* (its constructor raised)
    \* ---- the agent loop (autonomous.py, main.py) ----
    agent,       \* the AutonomousAgent and the position of its control thread
    cyc,         \* history of the agent's cycles
    \* ---- the failure classifier applied to one output ----
    probe        \* the input of a function applied on its own (a check output,
                 \* a list of tool calls, an operator line) and its result

vars == <<pc, goal, llm, report, test_passed, attempt, returned, fs, commits,
          hist, state, patterns, patterns_file, state_file, calls, projects,
          projects_file, history_file, now, mem, agent, cyc, probe>>

pipeVars == <<pc, goal, llm, report, test_passed, attempt, returned, fs,
              commits, hist>>

memVars == <<state, patterns, patterns_file, state_file, calls>>

storeVars == <<projects, projects_file, history_file, now, mem>>

agentVars == <<agent, cyc>>

otherVars == <<state, patterns, patterns_file, state_file, calls, projects,
               projects_file, history_file, now, mem, agent, cyc, probe>>

-----------------------------------------------------------------------------
(* Python string operations used by the code *)

Min(a, b) == IF a < b THEN a ELSE b

\* s[:n]
Trunc(s, n) == SubSeq(s, 1, Min(n, Len(s)))

\* s[i] as a one-character string
CharAt(s, i) == SubSeq(s, i, i)

\* t in s
Contains(s, t) ==
    \E i \in 1..(Len(s) - Len(t) + 1) : SubSeq(s, i, i + Len(t) - 1) = t

\* s.startswith(t)
StartsWith(s, t) == Len(t) <= Len(s) /\ SubSeq(s, 1, Len(t)) = t

\* s.endswith(t)
EndsWith(s, t) == Len(t) <= Len(s) /\ SubSeq(s, Len(s) - Len(t) + 1, Len(s)) = t

UpperLetters == "ABCDEFGHIJKLMNOPQRSTUVWXYZ"

LowerLetters == "abcdefghijklmnopqrstuvwxyz"

DigitChars == "0123456789"

CharsOf(s) == { CharAt(s, i) : i \in 1..Len(s) }

\* the lower-case letter of each upper-case letter
LowerOf ==
    [c \in CharsOf(UpperLetters) |->
        CharAt(LowerLetters, CHOOSE i \in 1..Len(UpperLetters) : CharAt(UpperLetters, i) = c)]

IsUpper(c) == c \in DOMAIN LowerOf

IsDigit(c) == c \in CharsOf(DigitChars)

\* \w of the re module, on the characters the model uses
IsWordChar(c) ==
    \/ IsUpper(c)
    \/ c \in CharsOf(LowerLetters)
    \/ IsDigit(c)
    \/ c = "_"

IsSpace(c) == c \in {" ", "\n", "\t", "\r", "\f"}

LowerChar(c) == IF IsUpper(c) THEN LowerOf[c] ELSE c

RECURSIVE Lower(_)
\* s.lower(), computed on the two halves of s
Lower(s) ==
    IF Len(s) = 0 THEN ""
    ELSE IF Len(s) = 1 THEN LowerChar(s)
    ELSE LET h == Len(s) \div 2
         IN  Lower(SubSeq(s, 1, h)) \o Lower(SubSeq(s, h + 1, Len(s)))

RECURSIVE LStrip(_)
LStrip(s) ==
    IF s # "" /\ IsSpace(CharAt(s, 1)) THEN LStrip(SubSeq(s, 2, Len(s))) ELSE s

RECURSIVE RStrip(_)
RStrip(s) ==
    IF s # "" /\ IsSpace(CharAt(s, Len(s))) THEN RStrip(SubSeq(s, 1, Len(s) - 1)) ELSE s

\* s.strip()
Strip(s) == RStrip(LStrip(s))

RECURSIVE Without(_, _)
\* s with every character ch left out
Without(s, ch) ==
    IF Len(s) = 0 THEN ""
    ELSE IF Len(s) = 1 THEN (IF s = ch THEN "" ELSE s)
    ELSE LET h == Len(s) \div 2
         IN  Without(SubSeq(s, 1, h), ch) \o Without(SubSeq(s, h + 1, Len(s)), ch)

\* The slip of deleting the tabs, s.replace('\t', '').
ReplaceTabs_Delete(s) == Without(s, "\t")

RECURSIVE ReplaceTabs(_)
\* s.replace('\t', '    '), computed on the two halves of s
ReplaceTabs(s) ==
    IF Len(s) = 0 THEN ""
    ELSE IF Len(s) = 1 THEN (IF s = "\t" THEN "    " ELSE s)
    ELSE LET h == Len(s) \div 2
         IN  ReplaceTabs(SubSeq(s, 1, h)) \o ReplaceTabs(SubSeq(s, h + 1, Len(s)))

RECURSIVE IntToStr(_)
\* str(n) for n >= 0
IntToStr(n) ==
    IF n < 10 THEN CharAt(DigitChars, n + 1)
    ELSE IntToStr(n \div 10) \o CharAt(DigitChars, (n % 10) + 1)

RECURSIVE Join(_, _)
\* sep.join(items)
Join(sep, items) ==
    IF items = <<>> THEN ""
    ELSE IF Len(items) = 1 THEN items[1]
    ELSE items[1] \o sep \o Join(sep, Tail(items))

\* the character at position i of s is of the class kind
InClass(s, i, kind) ==
    /\ i <= Len(s)
    /\ CASE kind = "word"     -> IsWordChar(CharAt(s, i))
         [] kind = "digit"    -> IsDigit(CharAt(s, i))
         [] kind = "notquote" -> CharAt(s, i) # "\""
         [] kind = "space"    -> IsSpace(CharAt(s, i))
         [] kind = "notnl"    -> CharAt(s, i) # "\n"
         [] kind = "char"     -> TRUE

\* length of the greedy run of characters of the class kind from position i
RunLen(s, i, kind) ==
    CHOOSE n \in 0..Len(s) :
        /\ \A k \in 0..(n - 1) : InClass(s, i + k, kind)
        /\ ~InClass(s, i + n, kind)

\* s has t at position i
HasAt(s, i, t) == i + Len(t) - 1 <= Len(s) /\ SubSeq(s, i, i + Len(t) - 1) = t

-----------------------------------------------------------------------------
(* The re module, on the patterns of enforce.py and command_parser.py *)

\* A pattern is a sequence of tokens:
\*   Alt(<<a, b>>)  (a|b), the alternatives tried in order; Lit(a) is a
\*                  itself and Opt(a) is (a)?
\*   Sp1, Sp0       \s+ and \s*
\*   Word1          \w+
\*   AnyText        .*   (no newline);  AllText: .* under re.DOTALL
\*   End            $
\*   Mark           the position is noted (the edge of a group)
\*   OptSp(a)       (a\s+)?
Alt(alts) == [kind |-> "alt", alts |-> alts, class |-> "", least |-> 0]

Lit(a) == Alt(<<a>>)

Opt(a) == Alt(<<a, "">>)

Run(class, least) == [kind |-> "run", alts |-> <<>>, class |-> class, least |-> least]

Sp1 == Run("space", 1)

Sp0 == Run("space", 0)

Word1 == Run("word", 1)

AnyText == Run("notnl", 0)

AllText == Run("char", 0)

End == [kind |-> "end", alts |-> <<>>, class |-> "", least |-> 0]

Mark == [kind |-> "mark", alts |-> <<>>, class |-> "", least |-> 0]

OptSp(a) == [kind |-> "optsp", alts |-> <<a>>, class |-> "", least |-> 0]

NoMatch == [ok |-> FALSE, marks |-> <<>>, end |-> 0]

RECURSIVE MatchAt(_, _, _, _)
RECURSIVE TryAlt(_, _, _, _, _)
RECURSIVE TryRun(_, _, _, _, _)
\* the match of toks[k..] on s from position i, as the backtracking matcher
\* finds it: the first alternative and the longest run with which the rest
\* of the pattern matches
MatchAt(s, i, toks, k) ==
    IF k > Len(toks) THEN [ok |-> TRUE, marks |-> <<>>, end |-> i]
    ELSE LET t == toks[k]
         IN  CASE t.kind = "alt" -> TryAlt(s, i, toks, k, 1)
               [] t.kind = "run" -> TryRun(s, i, toks, k, RunLen(s, i, t.class))
               [] t.kind = "end" ->
                    IF i = Len(s) + 1 \/ (i = Len(s) /\ CharAt(s, i) = "\n")
                    THEN MatchAt(s, i, toks, k + 1)
                    ELSE NoMatch
               [] t.kind = "mark" ->
                    LET r == MatchAt(s, i, toks, k + 1)
                    IN  IF r.ok THEN [r EXCEPT !.marks = <<i>> \o @] ELSE r
               [] t.kind = "optsp" ->
                    LET with == IF HasAt(s, i, t.alts[1])
                                THEN MatchAt(s, i + Len(t.alts[1]),
                                             <<Run("space", 1)>> \o SubSeq(toks, k + 1, Len(toks)), 1)
                                ELSE NoMatch
                    IN  IF with.ok THEN with ELSE MatchAt(s, i, toks, k + 1)

\* the alternatives of toks[k] from the a-th on, in their order
TryAlt(s, i, toks, k, a) ==
    IF a > Len(toks[k].alts) THEN NoMatch
    ELSE LET r == IF HasAt(s, i, toks[k].alts[a])
                  THEN MatchAt(s, i + Len(toks[k].alts[a]), toks, k + 1)
                  ELSE NoMatch
         IN  IF r.ok THEN r ELSE TryAlt(s, i, toks, k, a + 1)

\* the runs of toks[k] of n characters or fewer, the longest first
TryRun(s, i, toks, k, n) ==
    IF n < toks[k].least THEN NoMatch
    ELSE LET r == MatchAt(s, i + n, toks, k + 1)
         IN  IF r.ok THEN r ELSE TryRun(s, i, toks, k, n - 1)

\* re.match(pattern, s, re.IGNORECASE) for a pattern in lower case
re_match(toks, s) == MatchAt(Lower(s), 1, toks, 1)

\* re.search(pattern, s, re.IGNORECASE) finds a match
re_search(toks, s) == \E i \in 1..(Len(s) + 1) : MatchAt(Lower(s), i, toks, 1).ok

\* the text of s between the n-th and the (n+1)-th mark of a match
Group(s, m, n) == SubSeq(s, m.marks[n], m.marks[n + 1] - 1)

-----------------------------------------------------------------------------
(* tools.py: run_command and the file helpers *)

Missing == "<missing>"

FORBIDDEN_COMMANDS ==
    << "rm -rf /", ":(){ :|:& };:", "dd if=/dev/zero", "dd if=/dev/random",
       "mkfs", "> /dev/sda", "mv / ", "chmod -R 777 /", "shutdown", "reboot",
       "halt", "poweroff", "init 0", "init 6" >>

\* _check_safety(command): TRUE if safe
check_safety(command) ==
    LET cmd_lower == Strip(Lower(command))
    IN  ~ \E k \in 1..Len(FORBIDDEN_COMMANDS) : Contains(cmd_lower, FORBIDDEN_COMMANDS[k])

\* What the launched process does: it exits with a return code, or it is
\* still running when the timeout expires.
ProcExit(rc, out, err) == [kind |-> "exit", returncode |-> rc, stdout |-> out, stderr |-> err]

ProcTimeout == [kind |-> "timeout", returncode |-> -1, stdout |-> "", stderr |-> ""]

\* run_command(command, cwd, timeout) when the process behaves as proc
run_command(command, timeout, proc) ==
    IF ~check_safety(command) THEN "ERROR: Command blocked by safety filter."
    ELSE IF proc.kind = "timeout"
         THEN "ERROR: Command timed out after " \o IntToStr(timeout) \o "s"
    ELSE IF proc.returncode = 0 THEN proc.stdout
    ELSE "ERROR [" \o IntToStr(proc.returncode) \o "]: " \o Strip(proc.stderr)

\* read_file(path) on file system f
read_file(f, path) ==
    IF path \in DOMAIN f /\ f[path] # Missing THEN f[path]
    ELSE "ERROR: File not found: " \o path

-----------------------------------------------------------------------------
(* executor.py: the failure classifier *)

\* Python's None where a str is expected
None == "<None>"

failure_indicators ==
    << "Traceback (most recent call last)", "FAILED", "Error", "AssertionError",
       "SyntaxError", "IndentationError", "NameError", "TypeError",
       "ValueError", "ImportError", "ModuleNotFoundError", "ERRORS" >>

has_failure(output_str) ==
    \E k \in 1..Len(failure_indicators) : Contains(output_str, failure_indicators[k])

has_success(output_str) ==
    \/ Contains(output_str, "OK")
    \/ Contains(output_str, "passed")
    \/ EndsWith(Strip(output_str), "0")

\* The variant a plausible slip gives: failure indicators decide alone.
is_test_failure_NoPrecedence(output) == has_failure(output)

\* The slip of returning True where the success markers decide.
is_test_failure_Inverted(output) ==
    IF has_success(output) /\ ~Contains(output, "Traceback") THEN TRUE
    ELSE has_failure(output)

\* ExecutionPipeline._is_test_failure(output); in the pipeline output is
\* always the string run_command returned, never None.
is_test_failure(output) ==
    IF output = None THEN TRUE
    ELSE IF has_success(output) /\ ~Contains(output, "Traceback") THEN FALSE
    ELSE has_failure(output)

NoProbe == [output |-> "", done |-> FALSE, failing |-> FALSE]

\* Check outputs: up to MaxFragments fragments in a row, and the example of
\* the specification.
ProbeFragments ==
    {"", "OK", "passed", "0", " ", "\n", "Traceback", "Traceback (most recent call last)",
     "FAILED", "Error", "1 error, ", "NameError: x", "ERRORS"}

MaxFragments == 3

RECURSIVE Concats(_)
Concats(n) ==
    IF n = 0 THEN {""}
    ELSE { a \o b : a \in ProbeFragments, b \in Concats(n - 1) }

ProbeOutputs == Concats(MaxFragments) \cup {"3 tests, 1 error, OK", None}

\* _is_test_failure is applied to the output
Classify ==
    /\ ~probe.done
    /\ probe' = [probe EXCEPT !.done = TRUE, !.failing = is_test_failure(probe.output)]
    /\ UNCHANGED <<pipeVars, memVars, storeVars, agentVars>>

-----------------------------------------------------------------------------
(* executor.py: pattern-based repair *)

\* re.search(r"no module named '(\w+)'", s) finds a match
search_no_module(s) ==
    \E i \in 1..Len(s) :
        /\ HasAt(s, i, "no module named '")
        /\ LET j == i + Len("no module named '")
               n == RunLen(s, j, "word")
           IN  n >= 1 /\ HasAt(s, j + n, "'")

\* re.search(r'File "([^"]+)", line (\d+)', s) finds a match
search_file_line(s) ==
    \E i \in 1..Len(s) :
        /\ HasAt(s, i, "File \"")
        /\ LET j == i + Len("File \"")
               n == RunLen(s, j, "notquote")
           IN  /\ n >= 1
               /\ HasAt(s, j + n, "\", line ")
               /\ RunLen(s, j + n + Len("\", line "), "digit") >= 1

\* positions where r'File "([^"]+)"' matches
FileMatches(s) ==
    { i \in 1..Len(s) :
        /\ HasAt(s, i, "File \"")
        /\ LET j == i + Len("File \"")
               n == RunLen(s, j, "notquote")
           IN  n >= 1 /\ HasAt(s, j + n, "\"") }

\* group(1) of re.search(r'File "([^"]+)"', s): the leftmost match
search_file(s) ==
    LET i == CHOOSE k \in FileMatches(s) : \A m \in FileMatches(s) : k <= m
        j == i + Len("File \"")
    IN  SubSeq(s, j, j + RunLen(s, j, "notquote") - 1)

\* The outcome of a fix attempt: it raised, or it returned fixed (True/False);
\* files is the file map it leaves.
FixOutcome(res, files, detail) == [result |-> res, files |-> files, detail |-> detail]

\* ExecutionPipeline._pattern_repair(goal, project_path, error_msg) on the
\* file map files.  "import re" inside the function makes re a local name:
\* it is bound only once one of the two import statements has run.
pattern_repair(files, error_msg) ==
    LET error_lower == Lower(error_msg)
        import_branch == Contains(error_lower, "importerror")
                            \/ Contains(error_lower, "modulenotfounderror")
        re_bound == import_branch
        indent_tail ==
            IF Contains(error_lower, "indentationerror") /\ FileMatches(error_msg) # {}
            THEN LET filepath == search_file(error_msg)
                     code == read_file(files, filepath)
                     fixed == ReplaceTabs(code)
                 IN  IF ~StartsWith(code, "ERROR") /\ fixed # code
                     THEN FixOutcome("fixed", [files EXCEPT ![filepath] = fixed], "")
                     ELSE FixOutcome("notfixed", files, "")
            ELSE FixOutcome("notfixed", files, "")
    IN  IF import_branch /\ search_no_module(error_msg)
        THEN FixOutcome("notfixed", files, "")
        ELSE IF Contains(error_lower, "syntaxerror")
        THEN IF ~re_bound
             THEN FixOutcome("raise", files,
                    "cannot access local variable 're' where it is not associated with a value")
             ELSE IF search_file_line(error_msg)
             THEN FixOutcome("notfixed", files, "")
             ELSE indent_tail
        ELSE indent_tail

\* Error texts: up to MaxLines lines of a test run's output in a row.
ErrorLines ==
    {"", "ImportError: cannot import name 'x'\n",
     "ModuleNotFoundError: No module named 'yaml'\n",
     "  File \"/projects/app/main.py\", line 2\n",
     "  File \"/projects/app/test.py\"\n",
     "  File \"/tmp/gone.py\", line 1\n",
     "IndentationError: unexpected indent\n",
     "SyntaxError: invalid syntax\n"}

MaxLines == 3

RECURSIVE ErrorTexts(_)
ErrorTexts(n) ==
    IF n = 0 THEN {""}
    ELSE { a \o b : a \in ErrorLines, b \in ErrorTexts(n - 1) }

\* The files of the project directory: absent, without a tab, with a tab,
\* and a module whose first line assigns a name that starts with ERROR.
FileTexts == {"<missing>", "pass", "\tpass", "ERROR = 1\nif ERROR:\n\tpass"}

FileMaps == [{"/projects/app/main.py", "/projects/app/test.py"} -> FileTexts]

NoRepair ==
    [files |-> [p \in {"/projects/app/main.py", "/projects/app/test.py"} |-> "<missing>"],
     error_msg |-> "", done |-> FALSE, result |-> "", after |-> <<>>]

\* _pattern_repair is applied to the error text
PatternRepair ==
    /\ ~probe.done
    /\ LET out == pattern_repair(probe.files, probe.error_msg)
       IN  probe' = [probe EXCEPT !.done = TRUE, !.result = out.result,
                                  !.after = out.files]
    /\ UNCHANGED <<pipeVars, memVars, storeVars, agentVars>>

-----------------------------------------------------------------------------
(* memory.py: Memory *)

PATTERN_CAP == 100

MaxRecords == 102

\* The slip of keeping the first 100 entries, lst[:100].
Last100_KeepFirst(lst) == SubSeq(lst, 1, Min(Len(lst), PATTERN_CAP))

\* lst[-100:]
Last100(lst) == SubSeq(lst, Len(lst) - Min(Len(lst), PATTERN_CAP) + 1, Len(lst))

\* The defaults of the three loaded collections.  A value that is None or a
\* number (last_boot) or None or a bool (test_pass) is <<>> or <<v>>.
DefaultState ==
    [boot_count |-> 0, total_goals_completed |-> 0, total_goals_failed |-> 0,
     total_commands_executed |-> 0, last_active_project |-> None,
     last_boot |-> <<>>]

DefaultProjects == [n \in {} |-> None]

DefaultPatterns == [successful_patterns |-> <<>>, failed_patterns |-> <<>>]

\* ---- the JSON texts: json.dump writes a str in quotes and None as null ----

\* json.dumps of a value that is a str or None
json_str(s) == IF s = None THEN "null" ELSE "\"" \o s \o "\""

\* The slip of reading a string back with its quotes.
json_unstr_KeepQuotes(t) == t

\* json.loads of the text of a string or of null
json_unstr(t) == IF t = "null" THEN None ELSE SubSeq(t, 2, Len(t) - 1)

dump_state(s) == [s EXCEPT !.last_active_project = json_str(@)]

load_state(d) == [d EXCEPT !.last_active_project = json_unstr(@)]

dump_project(p) ==
    [p EXCEPT !.path = json_str(@), !.description = json_str(@), !.language = json_str(@)]

load_project(d) ==
    [d EXCEPT !.path = json_unstr(@), !.description = json_unstr(@), !.language = json_unstr(@)]

dump_projects(ps) == [n \in DOMAIN ps |-> dump_project(ps[n])]

load_projects(d) == [n \in DOMAIN d |-> load_project(d[n])]

dump_strs(lst) == [k \in 1..Len(lst) |-> json_str(lst[k])]

load_strs(lst) == [k \in 1..Len(lst) |-> json_unstr(lst[k])]

\* one Pattern Record; a failed one also carries the error text
dump_pattern(e) ==
    IF "error" \in DOMAIN e
    THEN [e EXCEPT !.goal = json_str(@), !.approach = dump_strs(@), !.error = json_str(@)]
    ELSE [e EXCEPT !.goal = json_str(@), !.approach = dump_strs(@)]

load_pattern(d) ==
    IF "error" \in DOMAIN d
    THEN [d EXCEPT !.goal = json_unstr(@), !.approach = load_strs(@), !.error = json_unstr(@)]
    ELSE [d EXCEPT !.goal = json_unstr(@), !.approach = load_strs(@)]

dump_patterns(p) ==
    [successful_patterns |->
        [k \in 1..Len(p.successful_patterns) |-> dump_pattern(p.successful_patterns[k])],
     failed_patterns |->
        [k \in 1..Len(p.failed_patterns) |-> dump_pattern(p.failed_patterns[k])]]

load_patterns(d) ==
    [successful_patterns |->
        [k \in 1..Len(d.successful_patterns) |-> load_pattern(d.successful_patterns[k])],
     failed_patterns |->
        [k \in 1..Len(d.failed_patterns) |-> load_pattern(d.failed_patterns[k])]]

\* one History Entry as a line of history.jsonl
dump_entry(e) == [e EXCEPT !.type = json_str(@), !.details = json_str(@)]

\* ---- the files of the memory directory ----
\* A file is [kind, doc].  kind "json": the file holds the JSON text of doc;
\* "missing": there is no file; "garbage": its text is not JSON (json.load
\* raises JSONDecodeError); "binary": its bytes are not UTF-8 (reading
\* raises UnicodeDecodeError).  doc matters for kind "json" only.
FileKinds == {"missing", "json", "garbage", "binary"}

File(kind, doc) == [kind |-> kind, doc |-> doc]

\* Memory._save_json(path, data), the directory being writable
save_json(doc) == File("json", doc)

\* Memory._load_json(path, default): the loaded document, the default for a
\* file that is absent or not JSON; any other exception is not caught
load_json(file, default_doc) ==
    CASE file.kind = "json"    -> [raised |-> FALSE, doc |-> file.doc]
      [] file.kind = "missing" -> [raised |-> FALSE, doc |-> default_doc]
      [] file.kind = "garbage" -> [raised |-> FALSE, doc |-> default_doc]
      [] file.kind = "binary"  -> [raised |-> TRUE, doc |-> default_doc]

NoHistoryFile == File("missing", <<>>)

\* The slip of opening the history log with mode 'w'.
append_line_Truncating(file, line) == File("json", <<line>>)

\* open(self.history_file, 'a') and one write of a line
append_line(file, line) ==
    File("json", IF file.kind = "missing" THEN <<line>> ELSE Append(file.doc, line))

\* Memory.__init__ over an empty memory directory: the defaults are loaded,
\* the boot is counted at time 1 and the state is saved
MemInit ==
    /\ state = [DefaultState EXCEPT !.boot_count = 1, !.last_boot = <<1>>]
    /\ state_file = save_json(dump_state(state))
    /\ patterns = DefaultPatterns
    /\ patterns_file = File("missing", dump_patterns(DefaultPatterns))
    /\ projects = DefaultProjects
    /\ projects_file = File("missing", dump_projects(DefaultProjects))
    /\ history_file = NoHistoryFile
    /\ now = 2
    /\ mem = "up"
    /\ calls = [success |-> 0, failure |-> 0, last |-> <<"none", None>>]

MemGoals == {"todo app"}

\* The slip of counting a success as a failure.
record_success_WrongCounter(goal_description, approach) ==
    /\ LET entry == [goal |-> goal_description, approach |-> approach,
                     timestamp |-> calls.success + 1]
       IN  patterns' = [patterns EXCEPT !.successful_patterns = Last100(Append(@, entry))]
    /\ patterns_file' = save_json(dump_patterns(patterns'))
    /\ state' = [state EXCEPT !.total_goals_failed = @ + 1]
    /\ state_file' = save_json(dump_state(state'))
    /\ calls' = [calls EXCEPT !.success = @ + 1]

\* Memory.record_success(goal_description, approach).  time.time() is a
\* logical clock per list: the entry of the k-th call carries k.
record_success(goal_description, approach) ==
    /\ LET entry == [goal |-> goal_description, approach |-> approach,
                     timestamp |-> calls.success + 1]
       IN  patterns' = [patterns EXCEPT !.successful_patterns = Last100(Append(@, entry))]
    /\ patterns_file' = save_json(dump_patterns(patterns'))
    /\ state' = [state EXCEPT !.total_goals_completed = @ + 1]
    /\ state_file' = save_json(dump_state(state'))
    /\ calls' = [calls EXCEPT !.success = @ + 1]

\* Memory.record_failure(goal_description, approach, error)
record_failure(goal_description, approach, error) ==
    /\ LET entry == [goal |-> goal_description, approach |-> approach,
                     error |-> Trunc(error, 500),
                     timestamp |-> calls.failure + 1]
       IN  patterns' = [patterns EXCEPT !.failed_patterns = Last100(Append(@, entry))]
    /\ patterns_file' = save_json(dump_patterns(patterns'))
    /\ state' = [state EXCEPT !.total_goals_failed = @ + 1]
    /\ state_file' = save_json(dump_state(state'))
    /\ calls' = [calls EXCEPT !.failure = @ + 1]

\* Memory.record_action(action_type, details, success)
record_action(action_type, details, success) ==
    /\ LET entry == [timestamp |-> now, type |-> action_type,
                     details |-> details, success |-> success]
       IN  history_file' = append_line(history_file, dump_entry(entry))
    /\ state' = [state EXCEPT !.total_commands_executed = @ + 1]
    /\ state_file' = save_json(dump_state(state'))
    /\ now' = now + 1

\* The slip of registering without making the project the active one.
register_project_NotActive(name, path, description) ==
    /\ projects' =
          [n \in DOMAIN projects \cup {name} |->
              IF n = name
              THEN [path |-> path, description |-> description, language |-> "python",
                    created |-> now, last_modified |-> now, commit_count |-> 0,
                    test_pass |-> <<>>]
              ELSE projects[n]]
    /\ state' = state
    /\ projects_file' = save_json(dump_projects(projects'))
    /\ state_file' = save_json(dump_state(state'))
    /\ now' = now + 1

\* Memory.register_project(name, path, description), language "python"
register_project(name, path, description) ==
    /\ projects' =
          [n \in DOMAIN projects \cup {name} |->
              IF n = name
              THEN [path |-> path, description |-> description, language |-> "python",
                    created |-> now, last_modified |-> now, commit_count |-> 0,
                    test_pass |-> <<>>]
              ELSE projects[n]]
    /\ state' = [state EXCEPT !.last_active_project = name]
    /\ projects_file' = save_json(dump_projects(projects'))
    /\ state_file' = save_json(dump_state(state'))
    /\ now' = now + 1

\* Memory.update_project(name, test_pass=test_pass): a name that is not
\* registered is left alone and nothing is saved
update_project(name, test_pass) ==
    IF name \in DOMAIN projects
    THEN /\ projects' = [projects EXCEPT ![name].test_pass = <<test_pass>>,
                                         ![name].last_modified = now]
         /\ projects_file' = save_json(dump_projects(projects'))
         /\ now' = now + 1
    ELSE UNCHANGED <<projects, projects_file, now>>

\* The slip of loading the state without counting the boot.
booted_NotCounted(s, t) == [s EXCEPT !.last_boot = <<t>>]

\* lines 45-46 of Memory.__init__: the boot is counted and dated
booted(s, t) == [s EXCEPT !.boot_count = @ + 1, !.last_boot = <<t>>]

\* Memory.__init__(memory_dir): the three collections are loaded in the
\* order state, projects, patterns; an exception of a load leaves no Memory
Memory_init ==
    LET s == load_json(state_file, dump_state(DefaultState))
        p == load_json(projects_file, dump_projects(DefaultProjects))
        t == load_json(patterns_file, dump_patterns(DefaultPatterns))
    IN  IF s.raised \/ p.raised \/ t.raised
        THEN /\ mem' = "crashed"
             /\ UNCHANGED <<state, state_file, projects, patterns, now>>
        ELSE /\ mem' = "up"
             /\ state' = booted(load_state(s.doc), now)
             /\ state_file' = save_json(dump_state(state'))
             /\ projects' = load_projects(p.doc)
             /\ patterns' = load_patterns(t.doc)
             /\ now' = now + 1

\* ---- calls made on a Memory, and its restarts ----

MaxOps == 4

ProjectNames == {"json_parser", "cli_todo"}

ProjectsRoot == "/projects"

PathOfProject(name) == ProjectsRoot \o "/" \o name

\* calls made since the first boot, which took place at time 1
WithinOps == now + calls.success + calls.failure <= MaxOps + 1

RecordSuccess ==
    /\ mem = "up"
    /\ calls.success < MaxRecords
    /\ \E goal_description \in MemGoals : record_success(goal_description, <<"main.py">>)
    /\ UNCHANGED <<storeVars, pipeVars, agentVars, probe>>

RecordFailure ==
    /\ mem = "up"
    /\ calls.failure < MaxRecords
    /\ \E goal_description \in MemGoals :
          record_failure(goal_description, <<"main.py">>, "Pipeline failed")
    /\ UNCHANGED <<storeVars, pipeVars, agentVars, probe>>

RecordAction ==
    /\ mem = "up"
    /\ WithinOps
    /\ \E action_type \in {"operator_input", "tool:run"}, success \in BOOLEAN :
          record_action(action_type, "ls", success)
    /\ UNCHANGED <<patterns, patterns_file, calls, projects, projects_file, mem>>
    /\ UNCHANGED <<pipeVars, agentVars, probe>>

RegisterProject ==
    /\ mem = "up"
    /\ WithinOps
    /\ \E name \in ProjectNames :
          /\ register_project(name, PathOfProject(name), "todo app")
          /\ calls' = [calls EXCEPT !.last = <<"register_project", name>>]
    /\ UNCHANGED <<patterns, patterns_file, history_file, mem>>
    /\ UNCHANGED <<pipeVars, agentVars, probe>>

UpdateProject ==
    /\ mem = "up"
    /\ WithinOps
    /\ \E name \in ProjectNames :
          /\ update_project(name, TRUE)
          /\ calls' = [calls EXCEPT !.last = <<"update_project", name>>]
    /\ UNCHANGED <<state, state_file, patterns, patterns_file, history_file, mem>>
    /\ UNCHANGED <<pipeVars, agentVars, probe>>

\* a new Memory is constructed over the same directory
Restart ==
    /\ mem = "up"
    /\ WithinOps
    /\ Memory_init
    /\ UNCHANGED <<patterns_file, projects_file, history_file, calls>>
    /\ UNCHANGED <<pipeVars, agentVars, probe>>

\* ---- the first construction over a directory left by an earlier process ----

OldState ==
    [boot_count |-> 3, total_goals_completed |-> 1, total_goals_failed |-> 1,
     total_commands_executed |-> 4, last_active_project |-> "cli_todo",
     last_boot |-> <<7>>]

OldProjects ==
    [n \in {"cli_todo"} |->
        [path |-> PathOfProject(n), description |-> "todo app", language |-> "python",
         created |-> 5, last_modified |-> 6, commit_count |-> 0, test_pass |-> <<TRUE>>]]

OldPatterns ==
    [successful_patterns |->
        << [goal |-> "todo app", approach |-> <<"todo.py">>, timestamp |-> 6] >>,
     failed_patterns |->
        << [goal |-> "todo app", approach |-> <<"todo.py">>,
            error |-> "Pipeline failed", timestamp |-> 4] >>]

\* what a file of the directory may hold when the process starts
FilesOf(default_doc, old_doc) ==
    { File(k, default_doc) : k \in FileKinds \ {"json"} }
        \cup { File("json", default_doc), File("json", old_doc) }

Boot ==
    /\ mem = "down"
    /\ Memory_init
    /\ UNCHANGED <<patterns_file, projects_file, history_file, calls>>
    /\ UNCHANGED <<pipeVars, agentVars, probe>>

-----------------------------------------------------------------------------
(* enforce.py: InputSanitizer *)

MAX_INPUT == 4096

FORBIDDEN_PATTERNS ==
    << <<Lit("rm"), Sp1, Lit("-rf"), Sp1, Lit("/"), Sp0, End>>,
       <<Lit("rm"), Sp1, Lit("-rf"), Sp1, Lit("/*")>>,
       <<Lit(":()"), Sp0, Lit("{")>>,
       <<Lit("dd"), Sp1, Lit("if=/dev/"), Alt(<<"zero", "random", "urandom">>), Sp1,
         Lit("of=/dev/sd")>>,
       <<Lit("mkfs.")>>,
       <<Lit(">"), Sp0, Lit("/dev/sd")>>,
       <<Lit("mv"), Sp1, Lit("/"), Run("space", 1)>>,
       <<Lit("chmod"), Sp1, Lit("-r"), Sp1, Lit("777"), Sp1, Lit("/"), Sp0, End>>,
       <<Lit("wget"), AnyText, Lit("|"), Sp0, Opt("ba"), Lit("sh")>>,
       <<Lit("curl"), AnyText, Lit("|"), Sp0, Opt("ba"), Lit("sh")>>,
       <<Lit("python"), Opt("3"), Sp1, Lit("-c"), Sp1, AnyText, Lit("import"), Sp1,
         Lit("os"), AnyText, Lit("system"), AnyText, Lit("rm")>> >>

\* The slip of finding every command safe.
is_safe_command_Always(command) == TRUE

\* InputSanitizer.is_safe_command(command)
is_safe_command(command) ==
    \A p \in 1..Len(FORBIDDEN_PATTERNS) : ~re_search(FORBIDDEN_PATTERNS[p], command)

PROTECTED_PATHS ==
    <<"/init", "/ai/core/main.py", "/ai/core/enforce.py", "/ai/core/tools.py",
      "/ai/core/memory.py", "/ai/core/command_parser.py", "/ai/core/system_prompt.txt",
      "/bin/", "/sbin/", "/usr/bin/", "/usr/sbin/", "/proc/", "/sys/", "/dev/">>

\* InputSanitizer.is_safe_path(path, operation)
is_safe_path(path, operation) ==
    \/ operation = "read"
    \/ \A p \in 1..Len(PROTECTED_PATHS) : ~StartsWith(path, PROTECTED_PATHS[p])

RECURSIVE RemoveControl(_)
\* re.sub(r'[\x00-\x08\x0b\x0c\x0e-\x1f\x7f]', '', text): of the control
\* characters of the model's texts (tab, newline, carriage return, form
\* feed) the class holds the form feed
RemoveControl(s) ==
    IF Len(s) = 0 THEN ""
    ELSE IF Len(s) = 1 THEN (IF s = "\f" THEN "" ELSE s)
    ELSE LET h == Len(s) \div 2
         IN  RemoveControl(SubSeq(s, 1, h)) \o RemoveControl(SubSeq(s, h + 1, Len(s)))

\* InputSanitizer.sanitize_input(text)
sanitize_input(text) == IF text = "" THEN "" ELSE Trunc(RemoveControl(text), MAX_INPUT)

-----------------------------------------------------------------------------
(* command_parser.py: CommandParser *)

\* ---- json.loads on the payload of a TOOL: line ----
\* The payloads of the model are flat objects with string values, arrays,
\* numbers and literals; any other text is malformed (JSONDecodeError).
\* A loaded value is [kind, pairs, text]: kind "object" with the sequence of
\* its <<key, value>> pairs, "other" for a value that is not an object, or
\* "malformed".
JsonValue(kind, pairs, text) == [kind |-> kind, pairs |-> pairs, text |-> text]

RECURSIVE ReadPairs(_, _)
\* the pairs of an object read from position i, just after "{" or ","; the
\* sequence ends with <<"}">> when the object is well formed
ReadPairs(s, i) ==
    LET m == MatchAt(s, i, <<Sp0, Lit("\""), Mark, Run("notquote", 0), Mark, Lit("\""),
                             Sp0, Lit(":"), Sp0, Lit("\""), Mark, Run("notquote", 0),
                             Mark, Lit("\""), Sp0, Mark, Alt(<<",", "}">>)>>, 1)
    IN  IF ~m.ok THEN <<>>
        ELSE LET pair == <<Group(s, m, 1), Group(s, m, 3)>>
             IN  IF CharAt(s, m.marks[5]) = "}"
                 THEN IF m.end = Len(s) + 1 THEN <<pair, <<"}">>>> ELSE <<>>
                 ELSE LET rest == ReadPairs(s, m.end)
                      IN  IF rest = <<>> THEN <<>> ELSE <<pair>> \o rest

json_loads(t) ==
    LET s == Strip(t)
    IN  IF MatchAt(s, 1, <<Lit("{"), Sp0, Lit("}"), End>>, 1).ok
        THEN JsonValue("object", <<>>, t)
        ELSE IF StartsWith(s, "{")
        THEN LET pairs == ReadPairs(s, 2)
             IN  IF pairs = <<>> THEN JsonValue("malformed", <<>>, t)
                 ELSE JsonValue("object", SubSeq(pairs, 1, Len(pairs) - 1), t)
        ELSE IF \/ s \in {"null", "true", "false", "[]"}
                \/ MatchAt(s, 1, <<Run("digit", 1), End>>, 1).ok
                \/ MatchAt(s, 1, <<Lit("["), Run("digit", 1), Lit("]"), End>>, 1).ok
        THEN JsonValue("other", <<>>, t)
        ELSE JsonValue("malformed", <<>>, t)

\* the keys of an object, and d.get(key, "") (the last pair of a key counts)
Keys(v) == { v.pairs[k][1] : k \in 1..Len(v.pairs) }

Get(v, key) ==
    IF v.kind = "object" /\ key \in Keys(v)
    THEN v.pairs[CHOOSE k \in 1..Len(v.pairs) :
                    /\ v.pairs[k][1] = key
                    /\ \A j \in (k + 1)..Len(v.pairs) : v.pairs[j][1] # key][2]
    ELSE ""

\* the args dict a plan builder writes
Args1(k1, v1) == JsonValue("object", <<<<k1, v1>>>>, "{\"" \o k1 \o "\": \"" \o v1 \o "\"}")

Args2(k1, v1, k2, v2) ==
    JsonValue("object", <<<<k1, v1>>, <<k2, v2>>>>,
              "{\"" \o k1 \o "\": \"" \o v1 \o "\", \"" \o k2 \o "\": \"" \o v2 \o "\"}")

\* one action of a plan
Action(tool, args) == [tool |-> tool, args |-> args]

\* ---- plans ----
\* keys: the keys of the plan dict that _handle_generation_task reads
NoPlan ==
    [some |-> FALSE, intent |-> "", entry |-> 0, actions |-> <<>>,
     requires_generation |-> FALSE, keys |-> {}, name |-> "", description |-> "",
     feature |-> "", path |-> ""]

Plan(intent, actions) == [NoPlan EXCEPT !.some = TRUE, !.intent = intent, !.actions = actions]

project_root == "/projects"

\* ---- INTENT_PATTERNS ----
\* Each entry is [intent, patterns].  Of a group of alternatives the ones
\* written in ASCII are kept; the marks are the edges of the groups that
\* _build_plan reads.
NAME_WORDS == {"yeni", "new", "proje", "project", "create", "init", "yarat"}

Verbs == <<"yaz", "create", "build", "write">>

INTENT_PATTERNS ==
    << [intent |-> "create_project",
        patterns |->
          << <<Alt(<<"yeni", "new">>), Sp1, Alt(<<"proje", "project">>), Sp1,
               Alt(<<"yarat", "create", "init">>), Sp0, Opt(":"), Sp0, Mark, AnyText, Mark>>,
             <<Alt(<<"proje", "project">>), Sp1, Alt(<<"yarat", "create", "init">>), Sp0,
               Opt(":"), Sp0, Mark, AnyText, Mark>>,
             <<Lit("create"), Sp1, Lit("project"), Sp1, Mark, AnyText, Mark>>,
             <<Lit("init"), Sp1, Lit("project"), Sp1, Mark, AnyText, Mark>> >>],
       [intent |-> "create_api",
        patterns |->
          << <<Alt(<<"api", "rest", "endpoint">>), Sp0,
               Alt(<<"yaz", "ekle", "write", "create", "build">>)>>,
             <<Alt(Verbs), Sp1, OptSp("bir"), Alt(<<"api", "rest", "endpoint">>)>>,
             <<Alt(<<"basit", "simple">>), Sp1, OptSp("bir"), Alt(<<"api", "rest">>), Sp0,
               Alt(<<"yaz", "create">>)>> >>],
       [intent |-> "create_tool",
        patterns |-> << <<Alt(Verbs), Sp1, OptSp("bir"), Mark, AnyText, Mark, End>> >>],
       [intent |-> "add_feature",
        patterns |->
          << <<Alt(<<"ekle", "add">>), Sp1, Mark, AnyText, Mark>>,
             <<AnyText, Sp1, Mark, Alt(<<"ekle", "add">>), Mark, End>> >>],
       [intent |-> "run_tests",
        patterns |->
          << <<Alt(<<"test", "testleri", "testler">>), Sp0, Alt(<<"run", "yap">>)>>,
             <<Lit("run"), Sp1, Alt(<<"test", "testleri", "testler">>)>>,
             <<Lit("run"), Sp1, Lit("test")>> >>],
       [intent |-> "build",
        patterns |->
          << <<Alt(<<"build", "derleme", "derle">>)>>,
             <<Alt(<<"al", "yap">>), Sp1, Alt(<<"build", "derleme">>)>> >>],
       [intent |-> "dockerize",
        patterns |->
          << <<Lit("docker")>>,
             <<Alt(<<"container", "konteyner">>), Sp0, Alt(<<"yap", "et">>)>> >>],
       [intent |-> "git_op",
        patterns |->
          << <<Alt(<<"commit", "kaydet">>)>>,
             <<Lit("git"), Sp1, Alt(<<"commit", "push", "pull", "status", "log">>)>> >>],
       [intent |-> "list",
        patterns |->
          << <<Alt(<<"listele", "list", "show", "ls">>), Sp1, Mark, AnyText, Mark>>,
             <<Alt(<<"dosyalar", "files", "projeler", "projects">>), Sp0, Mark,
               Alt(<<"listele", "list", "show">>), Mark>> >>],
       [intent |-> "read_file",
        patterns |->
          << <<Alt(<<"oku", "read", "cat", "show">>), Sp1, Mark, Run("notnl", 1),
               Lit("."), Word1, Mark>> >>],
       [intent |-> "fix",
        patterns |->
          << <<Alt(<<"fix", "debug", "hata">>), Sp0, Mark, AnyText, Mark>>,
             <<AnyText, Sp1, Mark, Lit("fix"), Mark, End>> >>],
       [intent |-> "shell",
        patterns |->
          << <<Alt(<<"python3", "python", "pip", "git", "npm", "node", "cargo", "go",
                     "make", "gcc", "g++", "sh", "bash">>), Sp1, AnyText>>,
             <<Alt(<<"ls", "cat", "mkdir", "cp", "mv", "rm", "find", "grep", "chmod",
                     "chown">>), Sp1, AnyText>> >>] >>

\* the entries with a pattern that matches text, and for an entry its first
\* matching pattern's match
Matching(text) ==
    { e \in 1..Len(INTENT_PATTERNS) :
        \E p \in 1..Len(INTENT_PATTERNS[e].patterns) :
            re_match(INTENT_PATTERNS[e].patterns[p], text).ok }

FirstMatch(text, e) ==
    LET ps == INTENT_PATTERNS[e].patterns
        p == CHOOSE q \in 1..Len(ps) :
                /\ re_match(ps[q], text).ok
                /\ \A r \in 1..(q - 1) : ~re_match(ps[r], text).ok
    IN  re_match(ps[p], text)

\* the group between the last two marks of a match, "" without marks
LastGroup(text, m) ==
    IF Len(m.marks) < 2 THEN "" ELSE Group(text, m, Len(m.marks) - 1)

RECURSIVE NameChars(_)
\* re.sub(r'[^\w\s-]', '', name)
NameChars(s) ==
    IF Len(s) = 0 THEN ""
    ELSE IF Len(s) = 1
    THEN (IF IsWordChar(s) \/ IsSpace(s) \/ s = "-" THEN s ELSE "")
    ELSE LET h == Len(s) \div 2
         IN  NameChars(SubSeq(s, 1, h)) \o NameChars(SubSeq(s, h + 1, Len(s)))

RECURSIVE Underscored(_)
\* re.sub(r'[\s]+', '_', name)
Underscored(s) ==
    IF s = "" THEN ""
    ELSE IF IsSpace(CharAt(s, 1))
    THEN "_" \o Underscored(SubSeq(s, 1 + RunLen(s, 1, "space"), Len(s)))
    ELSE CharAt(s, 1) \o Underscored(SubSeq(s, 2, Len(s)))

\* CommandParser._sanitize_name(name)
sanitize_name(name) ==
    LET n == Underscored(Strip(NameChars(Lower(name))))
    IN  IF n = "" THEN "project" ELSE n

\* CommandParser._extract_name(match, raw): the groups before the last are
\* words of the list, so the name is the last group or None
extract_name(text, m) ==
    LET g == LastGroup(text, m)
    IN  IF Len(g) > 1 /\ Lower(g) \notin NAME_WORDS THEN Strip(g) ELSE None

\* group 3 of the create_tool pattern: the text after the verb, without an
\* ending (\s+tool|\s+utility) (the lazy group stops at the first ending)
tool_description(text, m) ==
    LET rest == LastGroup(text, m)
        low == Lower(rest)
        n == CHOOSE k \in 0..Len(rest) :
                /\ \/ k = Len(rest)
                   \/ MatchAt(low, k + 1, <<Sp1, Alt(<<"tool", "utility">>), End>>, 1).ok
                /\ \A j \in 0..(k - 1) :
                      ~MatchAt(low, j + 1, <<Sp1, Alt(<<"tool", "utility">>), End>>, 1).ok
    IN  SubSeq(rest, 1, n)

\* CommandParser._plan_create_project(name)
plan_create_project(name) ==
    LET path == project_root \o "/" \o name
    IN  [Plan("create_project",
              <<Action("mkdir", Args1("path", path)),
                Action("git_init", Args1("path", path)),
                Action("write", Args2("path", path \o "/README.md", "content",
                                      "# " \o name \o "\n\nAuto-generated project.\n")),
                Action("git_commit", Args2("path", path, "message", "init: " \o name))>>)
            EXCEPT !.keys = {"name", "path"}, !.name = name, !.path = path]

\* CommandParser._plan_create_api()
plan_create_api ==
    LET path == project_root \o "/api_server"
    IN  [Plan("create_api",
              <<Action("mkdir", Args1("path", path)),
                Action("git_init", Args1("path", path)),
                Action("write", Args2("path", path \o "/server.py", "content", "<server_code>")),
                Action("write", Args2("path", path \o "/test_server.py", "content",
                                      "<test_code>")),
                Action("test", Args1("path", path)),
                Action("git_commit", Args2("path", path, "message",
                                           "feat: REST API server with CRUD and tests"))>>)
            EXCEPT !.keys = {"name", "path"}, !.name = "api_server", !.path = path]

\* CommandParser._plan_create_tool(description)
plan_create_tool(description) ==
    LET name == sanitize_name(description)
        path == project_root \o "/" \o name
    IN  [Plan("create_tool",
              <<Action("mkdir", Args1("path", path)), Action("git_init", Args1("path", path))>>)
            EXCEPT !.keys = {"name", "description", "path"}, !.name = name,
                   !.description = description, !.path = path,
                   !.requires_generation = TRUE]

\* CommandParser._plan_add_feature(feature)
plan_add_feature(feature) ==
    [Plan("add_feature", <<>>)
        EXCEPT !.keys = {"feature"}, !.feature = feature, !.requires_generation = TRUE]

\* CommandParser._plan_run_tests(), _plan_build(), _plan_dockerize(),
\* _plan_git_op(raw), _plan_fix(description); latest is the result of
\* _get_latest_project(), None without a project
plan_run_tests(latest) ==
    IF latest # None
    THEN [Plan("run_tests", <<Action("test", Args1("path", latest))>>)
            EXCEPT !.keys = {"path"}, !.path = latest]
    ELSE Plan("run_tests", <<Action("ls", Args1("path", project_root))>>)

plan_build(latest) ==
    IF latest = None THEN Plan("build", <<>>)
    ELSE [Plan("build",
               <<Action("run", Args2("command",
                                     "python3 -m py_compile *.py 2>&1 || make 2>&1 || echo 'No build system detected'",
                                     "cwd", latest))>>)
            EXCEPT !.keys = {"path"}, !.path = latest]

plan_dockerize(latest) ==
    IF latest = None THEN Plan("dockerize", <<>>)
    ELSE [Plan("dockerize",
               <<Action("write", Args2("path", latest \o "/Dockerfile", "content",
                                       "<dockerfile>")),
                 Action("write", Args2("path", latest \o "/docker-compose.yml", "content",
                                       "<compose>")),
                 Action("git_commit", Args2("path", latest, "message",
                                            "feat: add Docker support"))>>)
            EXCEPT !.keys = {"path"}, !.path = latest]

plan_git_op(raw, latest) ==
    LET path == IF latest = None THEN project_root ELSE latest
        low == Lower(raw)
    IN  IF Contains(low, "commit") \/ Contains(low, "kaydet")
        THEN Plan("git_commit",
                  <<Action("git_commit", Args2("path", path, "message",
                                               "auto: checkpoint commit"))>>)
        ELSE IF Contains(low, "status")
        THEN Plan("git_status", <<Action("git_status", Args1("path", path))>>)
        ELSE IF Contains(low, "log")
        THEN Plan("git_log", <<Action("git_log", Args1("path", path))>>)
        ELSE Plan("git_op", <<Action("run", Args1("command", raw))>>)

plan_fix(description, latest) ==
    [Plan("fix", <<>>)
        EXCEPT !.keys = {"description", "path"}, !.description = description,
               !.path = latest, !.requires_generation = TRUE]

\* the raw-shell plan
plan_shell(raw) == Plan("shell", <<Action("run", Args1("command", raw))>>)

\* CommandParser._build_plan(intent, match, raw_text)
build_plan(intent, m, raw_text, latest) ==
    CASE intent = "create_project" ->
            LET name == extract_name(raw_text, m)
            IN  plan_create_project(sanitize_name(IF name = None THEN "new_project" ELSE name))
      [] intent = "create_api" -> plan_create_api
      [] intent = "create_tool" -> plan_create_tool(Strip(tool_description(raw_text, m)))
      [] intent = "add_feature" -> plan_add_feature(Strip(LastGroup(raw_text, m)))
      [] intent = "run_tests" -> plan_run_tests(latest)
      [] intent = "build" -> plan_build(latest)
      [] intent = "dockerize" -> plan_dockerize(latest)
      [] intent = "git_op" -> plan_git_op(raw_text, latest)
      [] intent = "list" ->
            LET target == Strip(LastGroup(raw_text, m))
            IN  Plan("list", <<Action("ls", Args1("path", IF target = "" THEN project_root
                                                          ELSE target))>>)
      [] intent = "read_file" ->
            Plan("read_file", <<Action("read", Args1("path", Strip(LastGroup(raw_text, m))))>>)
      [] intent = "fix" -> plan_fix(Strip(LastGroup(raw_text, m)), latest)
      [] intent = "shell" -> plan_shell(raw_text)

\* _parse_tool_protocol, line 154: json.loads(args_str) if args_str else {}
tool_args(args_str) ==
    IF args_str = "" THEN JsonValue("object", <<>>, "{}") ELSE json_loads(args_str)

\* CommandParser._parse_tool_protocol(text)
parse_tool_protocol(text) ==
    LET m == MatchAt(text, 1, <<Lit("TOOL:"), Sp0, Mark, Word1, Mark, Sp0, Lit("ARGS:"),
                                Sp0, Mark, AllText, Mark>>, 1)
    IN  IF ~m.ok THEN NoPlan
        ELSE LET args == tool_args(Strip(Group(text, m, 3)))
             IN  IF args.kind = "malformed" THEN NoPlan
                 ELSE Plan("tool_call", <<Action(Group(text, m, 1), args)>>)

\* The slip of trying the entries from the last one.
first_entry_Last(matching) == CHOOSE e \in matching : \A f \in matching : f <= e

\* CommandParser.parse, lines 134-138: the entries are tried in order
first_entry(matching) == CHOOSE e \in matching : \A f \in matching : e <= f

\* The slip of handing the unmatched text to the tool-creation plan.
fallback_AsTool(text) == plan_create_tool(text)

\* CommandParser.parse, lines 141-145: the fallback
fallback(text) == plan_shell(text)

\* CommandParser.parse(input_text)
parse(input_text, latest) ==
    LET text == Strip(input_text)
    IN  IF text = "" THEN NoPlan
        ELSE IF StartsWith(text, "TOOL:") THEN parse_tool_protocol(text)
        ELSE IF Matching(text) # {}
        THEN LET e == first_entry(Matching(text))
             IN  [build_plan(INTENT_PATTERNS[e].intent, FirstMatch(text, e), text, latest)
                     EXCEPT !.entry = e]
        ELSE fallback(text)


\* ---- parse applied to one input ----

MaxWords == 3

ParseWords ==
    {"create", "project", "api", "add", "fix", "show", "git status", "run tests", "foo"}

RECURSIVE Phrases(_)
\* the phrases of n words
Phrases(n) ==
    IF n = 1 THEN ParseWords
    ELSE { a \o " " \o b : a \in Phrases(n - 1), b \in ParseWords }

\* lines of the TOOL protocol: an object, an empty and an omitted payload,
\* payloads that are no object, malformed ones, a line without ARGS
ToolLines ==
    {"TOOL: read ARGS: {\"path\": \"/etc/hosts\"}", "TOOL: ps ARGS: {}", "TOOL: ps ARGS:",
     "TOOL:ps ARGS:  ", "TOOL: run ARGS: [1]", "TOOL: run ARGS: null", "TOOL: run ARGS: 5",
     "TOOL: run ARGS: {", "TOOL: run ARGS: {\"command\": ls}", "TOOL: frobnicate ARGS: {}",
     "TOOL: read", "TOOL:", "  TOOL: ps ARGS: {}  "}

\* the inputs of parse: phrases of up to MaxWords words, TOOL lines, blank
\* and padded lines
ParseInputs ==
    UNION { Phrases(n) : n \in 1..MaxWords }
        \cup ToolLines
        \cup {"", "  ", "\n", "  hello  ", "ls -l\n", "Create Project: My App!"}

NoParse == [input |-> "", latest |-> None, done |-> FALSE, plan |-> NoPlan]

\* parse is applied to the input
Parse ==
    /\ ~probe.done
    /\ probe' = [probe EXCEPT !.done = TRUE, !.plan = parse(probe.input, probe.latest)]
    /\ UNCHANGED <<pipeVars, memVars, storeVars, agentVars>>

-----------------------------------------------------------------------------
(* autonomous.py, main.py: the agent loop *)

MaxCycles == 3

MaxInterrupts == 1

\* ---- the template catalogs: two of the basic templates, one advanced ----
\* ---- template and one system template                                 ----
PROJECT_TEMPLATES == {"json_parser", "cli_todo"}

PROJECT_TEMPLATES_ADVANCED == {"task_scheduler"}

TEMPLATES_SYSTEM == {"process_monitor"}

AllTemplates == PROJECT_TEMPLATES \cup PROJECT_TEMPLATES_ADVANCED \cup TEMPLATES_SYSTEM

\* the description and the file names of a template
Template(name) ==
    CASE name = "json_parser" ->
            [description |-> "Recursive JSON parser from scratch",
             files |-> <<"parser.py", "test_parser.py">>, keywords |-> {"json", "parser", "parse"}]
      [] name = "cli_todo" ->
            [description |-> "Command-line TODO list manager with file persistence",
             files |-> <<"todo.py", "test_todo.py">>, keywords |-> {"todo", "task", "list", "cli"}]
      [] name = "task_scheduler" ->
            [description |-> "Cron-like task scheduler with interval support",
             files |-> <<"scheduler.py", "test_scheduler.py">>,
             keywords |-> {"schedule", "cron", "timer", "task"}]
      [] name = "process_monitor" ->
            [description |-> "System process monitor with alerts",
             files |-> <<"monitor.py", "test_monitor.py">>,
             keywords |-> {"process", "monitor", "ps", "watch", "alert"}]

\* AutonomousAgent._generate_goal: the templates random.choice draws from,
\* and the two lists as the call leaves them.  completed_goals and
\* failed_goals are kept as the sets of their goals' names.
generate_goal(completed, failed) ==
    LET fresh    == { g \in PROJECT_TEMPLATES : g \notin completed /\ g \notin failed }
        retry    == { g \in PROJECT_TEMPLATES : g \notin completed }
        advanced == { g \in PROJECT_TEMPLATES_ADVANCED \cup TEMPLATES_SYSTEM :
                        g \notin completed /\ g \notin failed }
    IN  IF fresh # {}
        THEN [available |-> fresh, completed |-> completed, failed |-> failed]
        ELSE IF retry # {}
        THEN [available |-> retry, completed |-> completed, failed |-> {}]
        ELSE IF advanced # {}
        THEN [available |-> advanced, completed |-> completed, failed |-> {}]
        ELSE [available |-> AllTemplates, completed |-> {}, failed |-> {}]

\* AutonomousAgent._find_matching_template(description): the first template
\* one of whose keywords is in the lowered description, or None
find_matching_template(description) ==
    LET matching == { g \in AllTemplates :
                        \E kw \in Template(g).keywords : Contains(Lower(description), kw) }
        order == <<"json_parser", "cli_todo", "task_scheduler", "process_monitor">>
    IN  IF matching = {} THEN None
        ELSE order[CHOOSE i \in 1..Len(order) :
                      /\ order[i] \in matching
                      /\ \A j \in 1..(i - 1) : order[j] \notin matching]

\* ---- operator input ----

TOOL_REGISTRY ==
    {"run", "write", "read", "append", "delete", "ls", "find", "exists", "mkdir",
     "cp", "mv", "git_init", "git_commit", "git_status", "git_log", "git_diff",
     "ps", "kill", "sysinfo", "detect_type", "test", "screenshot", "browser",
     "click", "type"}

\* the lines the operator types
OperatorLines ==
    {"ls", "l\fs", "ls\t-l", "rm -rf /", "create project demo", "create json parser",
     "create widget", "TOOL: frobnicate ARGS: {}", "TOOL: read ARGS: {\"file\": \"x\"}",
     "TOOL: run ARGS: {",
     "TOOL: write ARGS: {\"path\": \"/ai/core/main.py\", \"content\": \"x\"}", ""}

\* what one wait for input gives: a line, the end of the stream, bytes that
\* do not decode, and for select() also the timeout and an OSError
Line(text) == [kind |-> "line", text |-> text]

Inputs ==
    { Line(t) : t \in OperatorLines }
        \cup { [kind |-> k, text |-> ""] : k \in {"eof", "undecodable"} }

SelectOutcomes == Inputs \cup { [kind |-> k, text |-> ""] : k \in {"timeout", "oserror"} }

\* ---- the agent and the history of its cycles ----

Modes == {"operator", "autonomous", "hybrid"}

\* pc: "main" (in main(), about to call start_loop), "loop" (in start_loop,
\* between two cycles: waiting for input or in the sleep that ends a cycle),
\* "dispatch" (in the for loop of _execute_operator_command), "pipeline"
\* (in execute_goal), "backoff" (in the sleep of the except clause of
\* start_loop), "exited" (main() has returned); "off": no agent
AgentOff ==
    [pc |-> "off", mode |-> "autonomous", llm |-> FALSE, current_goal |-> None,
     completed_goals |-> {}, failed_goals |-> {}, dirs |-> {}, plan |-> NoPlan]

NoCycles ==
    [n |-> 0, interrupts |-> 0, errors |-> 0, kind |-> "none", input |-> "none",
     operator_ran |-> FALSE, autonomous_ran |-> FALSE, runs |-> 0, stale |-> FALSE,
     returns |-> 0, ret |-> <<>>, log |-> <<>>]

\* the history of a cycle that begins
NewCycle(kind, input) ==
    [cyc EXCEPT !.n = @ + 1, !.kind = kind, !.input = input, !.operator_ran = FALSE,
                !.autonomous_ran = FALSE, !.ret = <<>>, !.log = <<>>,
                !.stale = (agent.current_goal # None)]

MemoryUnchanged ==
    UNCHANGED <<state, state_file, history_file, now, projects, projects_file,
                patterns, patterns_file, calls>>

\* The slip of letting the exception leave start_loop.
cycle_error_Propagates(c, e) ==
    /\ agent' = [agent EXCEPT !.pc = "main", !.plan = NoPlan]
    /\ cyc' = [c EXCEPT !.errors = @ + 1]
    /\ MemoryUnchanged

\* start_loop, lines 82-85: an Exception raised in a cycle is recorded and
\* the loop sleeps before the next cycle
cycle_error(c, e) ==
    /\ record_action("cycle_error", e, FALSE)
    /\ UNCHANGED <<projects, projects_file, patterns, patterns_file, calls>>
    /\ agent' = [agent EXCEPT !.pc = "backoff", !.plan = NoPlan]
    /\ cyc' = [c EXCEPT !.errors = @ + 1]

\* the results _get_latest_project() can have: the project directory
\* modified last, None without one
LatestProjects ==
    IF agent.dirs = {} THEN {None} ELSE { PathOfProject(d) : d \in agent.dirs }

\* the commands the cycles pass to _execute_operator_command
OperatorCommands ==
    { sanitize_input(t) : t \in OperatorLines } \cup { sanitize_input(Strip(t)) : t \in OperatorLines }

\* the project directories of the model: of the templates and of the
\* commands
ProjectDirs == AllTemplates \cup {"demo", "widget", "generated"}

\* self.parser.parse(command) for the commands and the latest projects of
\* the model, computed once
parsed ==
    { <<c, l, parse(c, l)>> : c \in OperatorCommands,
                              l \in {None} \cup { PathOfProject(d) : d \in ProjectDirs } }

parse_command(command, latest) ==
    (CHOOSE t \in parsed : t[1] = command /\ t[2] = latest)[3]

\* _execute_operator_command(command) up to its for loop
execute_operator_command(c, command) ==
    /\ record_action("operator_input", command, TRUE)
    /\ UNCHANGED <<projects, projects_file, patterns, patterns_file, calls>>
    /\ \E latest \in LatestProjects :
          LET plan == parse_command(command, latest)
          IN  /\ agent' = IF plan.some
                          THEN [agent EXCEPT !.pc = "dispatch", !.plan = plan]
                          ELSE agent
              /\ cyc' = [c EXCEPT !.operator_ran = TRUE]

\* The slip of never taking the line read as a command.
has_command_Never(sel) == FALSE

\* _hybrid_cycle, lines 171-174: the line read from a readable stdin,
\* stripped, is not empty
has_command(sel) == sel.kind = "line" /\ Strip(sel.text) # ""

\* _autonomous_cycle up to the call of execute_goal: a goal is generated if
\* none is current, and its project is registered if its directory is new
autonomous_cycle(c) ==
    LET gen == agent.current_goal = None
        g   == generate_goal(agent.completed_goals, agent.failed_goals)
    IN  \E name \in (IF gen THEN g.available ELSE {agent.current_goal}) :
          /\ agent' = [agent EXCEPT !.pc = "pipeline",
                                    !.current_goal = name,
                                    !.completed_goals = IF gen THEN g.completed ELSE @,
                                    !.failed_goals = IF gen THEN g.failed ELSE @]
          /\ cyc' = [c EXCEPT !.autonomous_ran = TRUE,
                              !.runs = IF gen THEN 1 ELSE @ + 1]
          /\ IF name \notin agent.dirs
             THEN /\ register_project(name, PathOfProject(name), Template(name).description)
                  /\ UNCHANGED <<history_file, patterns, patterns_file, calls>>
             ELSE MemoryUnchanged

\* main(), lines 90-92: start_loop is called
StartLoop ==
    /\ agent.pc = "main"
    /\ agent' = [agent EXCEPT !.pc = "loop"]
    /\ UNCHANGED cyc
    /\ MemoryUnchanged
    /\ UNCHANGED <<mem, pipeVars, probe>>

\* _operator_cycle
OperatorCycle ==
    /\ agent.pc = "loop"
    /\ agent.mode = "operator"
    /\ cyc.n < MaxCycles
    /\ \E inp \in Inputs :
          LET c == NewCycle("operator", inp.kind)
              line == sanitize_input(inp.text)
          IN  CASE inp.kind = "eof" ->
                      /\ cyc' = c
                      /\ UNCHANGED agent
                      /\ MemoryUnchanged
                [] inp.kind = "undecodable" ->
                      cycle_error(c, "'utf-8' codec can't decode byte 0xff")
                [] inp.kind = "line" ->
                      IF line = ""
                      THEN /\ cyc' = c
                           /\ UNCHANGED agent
                           /\ MemoryUnchanged
                      ELSE execute_operator_command(c, line)
    /\ UNCHANGED <<mem, pipeVars, probe>>

\* _hybrid_cycle
HybridCycle ==
    /\ agent.pc = "loop"
    /\ agent.mode = "hybrid"
    /\ cyc.n < MaxCycles
    /\ \E sel \in SelectOutcomes :
          LET c == NewCycle("hybrid", IF sel.kind = "line" /\ Strip(sel.text) = ""
                                      THEN "blank" ELSE sel.kind)
          IN  IF has_command(sel)
              THEN execute_operator_command(c, sanitize_input(Strip(sel.text)))
              ELSE autonomous_cycle(c)
    /\ UNCHANGED <<mem, pipeVars, probe>>

\* _autonomous_cycle, begun by start_loop in autonomous mode
AutonomousCycle ==
    /\ agent.pc = "loop"
    /\ agent.mode = "autonomous"
    /\ cyc.n < MaxCycles
    /\ autonomous_cycle(NewCycle("autonomous", "none"))
    /\ UNCHANGED <<mem, pipeVars, probe>>

\* the parameters of the tools of TOOL_REGISTRY: required, optional
Params(tool) ==
    CASE tool = "run" -> [req |-> {"command"}, opt |-> {"cwd", "timeout"}]
      [] tool \in {"write", "append"} -> [req |-> {"path", "content"}, opt |-> {}]
      [] tool \in {"read", "delete", "exists", "mkdir", "git_init", "git_status",
                   "git_diff", "detect_type", "test"} -> [req |-> {"path"}, opt |-> {}]
      [] tool = "ls" -> [req |-> {"path"}, opt |-> {"recursive"}]
      [] tool = "find" -> [req |-> {"path", "pattern"}, opt |-> {}]
      [] tool \in {"cp", "mv"} -> [req |-> {"src", "dst"}, opt |-> {}]
      [] tool = "git_commit" -> [req |-> {"path", "message"}, opt |-> {}]
      [] tool = "git_log" -> [req |-> {"path"}, opt |-> {"count"}]
      [] tool \in {"ps", "sysinfo"} -> [req |-> {}, opt |-> {}]
      [] tool = "kill" -> [req |-> {"pid"}, opt |-> {}]
      [] tool = "screenshot" -> [req |-> {}, opt |-> {"filename"}]
      [] tool = "browser" -> [req |-> {}, opt |-> {"url"}]
      [] tool = "click" -> [req |-> {"x", "y"}, opt |-> {}]
      [] tool = "type" -> [req |-> {"text"}, opt |-> {}]

\* func(**args) raises TypeError: args is not a mapping, or its keys are not
\* the parameters of the tool
call_raises(action) ==
    \/ action.args.kind # "object"
    \/ ~(Params(action.tool).req \subseteq Keys(action.args))
    \/ ~(Keys(action.args) \subseteq Params(action.tool).req \cup Params(action.tool).opt)

\* delete_file, lines 115-119: the paths the tool itself refuses
delete_critical == <<"/ai/core/", "/init", "/bin/", "/sbin/", "/usr/bin/">>

\* the tool is called and returns its own refusal: run_command for a
\* command _check_safety rejects, delete_file for a critical path
tool_refuses(action) ==
    \/ action.tool = "run" /\ ~check_safety(Get(action.args, "command"))
    \/ /\ action.tool = "delete"
       /\ \E k \in 1..Len(delete_critical) :
             StartsWith(Get(action.args, "path"), delete_critical[k])

\* the directories a tool call leaves: mkdir and git_init make the path
tool_dirs(action) ==
    LET path == Get(action.args, "path")
        root == project_root \o "/"
    IN  IF action.tool \in {"mkdir", "git_init"} /\ StartsWith(path, root) /\ path # root
        THEN agent.dirs \cup {SubSeq(path, Len(root) + 1, Len(path))}
        ELSE agent.dirs

\* _execute_operator_command, line 116: the for loop goes on to the next
\* action whatever the outcome
rest_of_plan(plan, outcome) == [plan EXCEPT !.actions = Tail(@)]

\* the outcome of one turn of the for loop: "unknown" (the tool is not in
\* TOOL_REGISTRY), "blocked" (an unsafe run is skipped), "raised" (the call
\* raised), "refused" (the tool returned its own refusal), "returned"
dispatch_outcome(action) ==
    IF action.tool \notin TOOL_REGISTRY THEN "unknown"
    ELSE IF action.tool = "run" /\ action.args.kind = "object"
            /\ ~is_safe_command(Get(action.args, "command"))
    THEN "blocked"
    ELSE IF call_raises(action) THEN "raised"
    ELSE IF tool_refuses(action) THEN "refused"
    ELSE "returned"

\* _execute_operator_command, one turn of its for loop
Dispatch ==
    /\ agent.pc = "dispatch"
    /\ agent.plan.actions # <<>>
    /\ LET action == Head(agent.plan.actions)
           outcome == dispatch_outcome(action)
       IN  /\ cyc' = [cyc EXCEPT !.log = Append(@, [tool |-> action.tool,
                                                    outcome |-> outcome,
                                                    at |-> now,
                                                    command |-> Get(action.args, "command"),
                                                    path |-> Get(action.args, "path")])]
           /\ agent' = [agent EXCEPT !.plan = rest_of_plan(@, outcome),
                                     !.dirs = IF outcome = "returned" THEN tool_dirs(action)
                                              ELSE @]
           /\ IF outcome \in {"unknown", "blocked"}
              THEN MemoryUnchanged
              ELSE /\ record_action("tool:" \o action.tool, action.args.text,
                                    outcome # "raised")
                   /\ UNCHANGED <<projects, projects_file, patterns, patterns_file, calls>>
    /\ UNCHANGED <<mem, pipeVars, probe>>

\* _execute_operator_command after its for loop: _handle_generation_task for
\* a plan that requires generation.  With a backend nothing is done; with a
\* matching template self._execute_goal is called, which AutonomousAgent does
\* not define (AttributeError); else _create_skeleton_project
FinishCommand ==
    /\ agent.pc = "dispatch"
    /\ agent.plan.actions = <<>>
    /\ LET plan == agent.plan
           done == [agent EXCEPT !.pc = "loop", !.plan = NoPlan]
           name == IF "name" \in plan.keys THEN plan.name ELSE "generated"
           path == IF "path" \in plan.keys THEN plan.path ELSE PathOfProject(name)
           description == IF "description" \in plan.keys THEN plan.description
                          ELSE IF "feature" \in plan.keys THEN plan.feature
                          ELSE plan.intent
       IN  IF ~plan.requires_generation \/ agent.llm
           THEN /\ agent' = done
                /\ UNCHANGED cyc
                /\ MemoryUnchanged
           ELSE IF find_matching_template(description) # None
           THEN cycle_error(cyc, "'AutonomousAgent' object has no attribute '_execute_goal'")
           ELSE /\ register_project(name, path, description)
                /\ UNCHANGED <<history_file, patterns, patterns_file, calls>>
                /\ agent' = [done EXCEPT !.dirs = IF path = PathOfProject(name)
                                                  THEN @ \cup {name} ELSE @]
                /\ UNCHANGED cyc
    /\ UNCHANGED <<mem, pipeVars, probe>>

\* The slip of recording every returned run as a success.
record_outcome_AlwaysSuccess(success, name) ==
    /\ record_success(Template(name).description, Template(name).files)
    /\ update_project(name, TRUE)
    /\ UNCHANGED history_file

\* _autonomous_cycle, lines 210-225: the outcome of the run is recorded
record_outcome(success, name) ==
    IF success
    THEN /\ record_success(Template(name).description, Template(name).files)
         /\ update_project(name, TRUE)
         /\ UNCHANGED history_file
    ELSE /\ record_failure(Template(name).description, Template(name).files,
                           "Pipeline failed")
         /\ UNCHANGED <<history_file, projects, projects_file, now>>

\* _autonomous_cycle from the return of execute_goal: execute_goal catches
\* every Exception and returns success or failure; setup has made the
\* project directory; the outcome is recorded and the goal is dropped
PipelineReturn ==
    /\ agent.pc = "pipeline"
    /\ \E success \in BOOLEAN :
          LET name == agent.current_goal
          IN  /\ record_outcome(success, name)
              /\ agent' = [agent EXCEPT
                              !.pc = "loop",
                              !.current_goal = None,
                              !.dirs = @ \cup {name},
                              !.completed_goals = IF success THEN @ \cup {name} ELSE @,
                              !.failed_goals = IF success THEN @ ELSE @ \cup {name}]
              /\ cyc' = [cyc EXCEPT !.returns = @ + 1, !.ret = <<success>>]
    /\ UNCHANGED <<mem, pipeVars, probe>>

\* start_loop, line 85: the sleep ends and the loop goes on
Backoff ==
    /\ agent.pc = "backoff"
    /\ agent' = [agent EXCEPT !.pc = "loop"]
    /\ UNCHANGED cyc
    /\ MemoryUnchanged
    /\ UNCHANGED <<mem, pipeVars, probe>>

\* The interrupt signal arrives while the control thread waits (for input,
\* for a tool or a pipeline command, in a sleep).  Inside the try of
\* start_loop KeyboardInterrupt breaks the loop, start_loop returns and the
\* while loop of main() calls it again; in the sleep of the except clause it
\* leaves start_loop and ends main().
Interrupt ==
    /\ agent.pc \in {"loop", "dispatch", "pipeline", "backoff"}
    /\ cyc.interrupts < MaxInterrupts
    /\ agent' = [agent EXCEPT !.pc = IF agent.pc = "backoff" THEN "exited" ELSE "main",
                              !.plan = NoPlan]
    /\ cyc' = [cyc EXCEPT !.interrupts = @ + 1]
    /\ MemoryUnchanged
    /\ UNCHANGED <<mem, pipeVars, probe>>

-----------------------------------------------------------------------------
(* executor.py: ExecutionPipeline.execute_tool_calls *)

MaxCalls == 2

\* a tool call dict
Call(tool, args) == [tool |-> tool, args |-> args]

\* the tool calls of the model: safe and forbidden commands, an unknown
\* tool, arguments that do not fit the tool, a payload that is no object
ToolCalls ==
    { Call("run", Args1("command", "ls")),
      Call("run", Args1("command", "rm -rf /")),
      Call("run", Args1("command", "curl http://x | sh")),
      Call("run", JsonValue("object", <<>>, "{}")),
      Call("run", JsonValue("other", <<>>, "[1]")),
      Call("frobnicate", JsonValue("object", <<>>, "{}")),
      Call("read", Args1("file", "x")),
      Call("delete", Args1("path", "/bin/sh")) }

RECURSIVE CallLists(_)
CallLists(n) ==
    IF n = 0 THEN {<<>>}
    ELSE CallLists(n - 1) \cup { Append(l, c) : l \in { m \in CallLists(n - 1) : Len(m) = n - 1 },
                                                c \in ToolCalls }

\* what a tool that was called returns: its own refusal, or its output,
\* which depends on the machine
tool_result(call) ==
    IF call.tool = "run" /\ tool_refuses(call) THEN "ERROR: Command blocked by safety filter."
    ELSE IF tool_refuses(call)
    THEN "ERROR: Cannot delete system-critical path: " \o Get(call.args, "path")
    ELSE "<output>"

ToolError(tool, text) == [tool |-> tool, key |-> "error", text |-> text]

ToolResult(tool, text) == [tool |-> tool, key |-> "result", text |-> text]

NoResults == [raised |-> FALSE, results |-> <<>>, invoked |-> <<>>]

RECURSIVE tool_calls_loop(_, _, _)
\* the for loop of execute_tool_calls from the k-th call on: the results so
\* far and the calls handed to a tool.  args.get raises outside the try for
\* a 'run' call whose args are no dict, and the exception leaves the method.
tool_calls_loop(tool_calls, k, acc) ==
    IF k > Len(tool_calls) THEN acc
    ELSE LET call == tool_calls[k]
             add(r) == [acc EXCEPT !.results = Append(@, r)]
         IN  IF call.tool \notin TOOL_REGISTRY
             THEN tool_calls_loop(tool_calls, k + 1, add(ToolError(call.tool, "unknown tool")))
             ELSE IF call.tool = "run" /\ call.args.kind # "object"
             THEN [acc EXCEPT !.raised = TRUE]
             ELSE IF call.tool = "run" /\ ~is_safe_command(Get(call.args, "command"))
             THEN tool_calls_loop(tool_calls, k + 1,
                                  add(ToolError(call.tool, "blocked by safety")))
             ELSE IF call_raises(call)
             THEN tool_calls_loop(tool_calls, k + 1, add(ToolError(call.tool, "TypeError")))
             ELSE tool_calls_loop(tool_calls, k + 1,
                     [acc EXCEPT !.results = Append(@, ToolResult(call.tool,
                                                             Trunc(tool_result(call), 500))),
                                 !.invoked = Append(@, k)])

\* ExecutionPipeline.execute_tool_calls(tool_calls)
execute_tool_calls(tool_calls) == tool_calls_loop(tool_calls, 1, NoResults)

NoCalls == [tool_calls |-> <<>>, done |-> FALSE, ret |-> NoResults]

\* execute_tool_calls is applied to the list
ExecuteToolCalls ==
    /\ ~probe.done
    /\ probe' = [probe EXCEPT !.done = TRUE, !.ret = execute_tool_calls(probe.tool_calls)]
    /\ UNCHANGED <<pipeVars, memVars, storeVars, agentVars>>

-----------------------------------------------------------------------------
(* The environment of a pipeline run: goals, backend answers, processes *)

MAX_FIX_ATTEMPTS == 3

project_path == "/projects/app"

PathOf(filename) == project_path \o "/" \o filename

Filenames == {"main.py", "test.py"}

Paths == { PathOf(f) : f \in Filenames }

Contents == {"pass", "\tpass"}

Descriptions == {"todo app", "reboot helper"}

NoFiles == <<>>

\* goal dicts: "files" and "test_cmd" are optional keys
Goals ==
    { [description |-> d, has_files |-> hf, files |-> fl, has_test_cmd |-> ht, test_cmd |-> tc] :
        d \in Descriptions,
        hf \in BOOLEAN,
        fl \in {NoFiles} \cup { << [filename |-> "main.py", content |-> c] >> : c \in Contents },
        ht \in BOOLEAN,
        tc \in {"", "python3 test.py", "python3 reboot_test.py"} }

UsableGoals ==
    { g \in Goals : /\ (g.has_files <=> g.files # NoFiles)
                    /\ (g.has_test_cmd <=> g.test_cmd # "") }

\* What llm.generate_project_plan returns: None, a plan with a "files"
\* mapping (with or without "test_cmd"), or a JSON object whose "files" is
\* not a mapping.
Plans ==
    { [kind |-> "none",    files |-> <<>>,          has_test_cmd |-> FALSE, test_cmd |-> ""],
      [kind |-> "mapping", files |-> <<"main.py">>, has_test_cmd |-> FALSE, test_cmd |-> ""],
      [kind |-> "mapping", files |-> <<"main.py">>, has_test_cmd |-> TRUE,  test_cmd |-> "python3 test.py"],
      [kind |-> "list",    files |-> <<"main.py">>, has_test_cmd |-> FALSE, test_cmd |-> ""] }

\* What llm.generate_code / llm.generate_fix return: None or code
NoCode == "<None>"

Generated == {NoCode} \cup Contents

TracebackSyntax ==
    "Traceback (most recent call last):\n  File \"/projects/app/main.py\", line 1\nSyntaxError: invalid syntax"

TracebackIndent ==
    "Traceback (most recent call last):\n  File \"/projects/app/main.py\", line 2\nIndentationError: unexpected indent"

TracebackImport ==
    "Traceback (most recent call last):\nModuleNotFoundError: No module named 'yaml'"

\* the output of a test run with two errors
TracebackImportIndent ==
    "Traceback (most recent call last):\nImportError: cannot import name 'x'\n  File \"/projects/app/main.py\", line 2\nIndentationError: unexpected indent"

\* What a check command (the goal's test command or a default check) can do
CheckProcs ==
    { ProcExit(0, "OK", ""),
      ProcExit(0, "3 tests, 1 error, OK", ""),
      ProcExit(0, "Error count: 0\n", ""),
      ProcExit(1, "", TracebackSyntax),
      ProcExit(1, "", TracebackIndent),
      ProcExit(1, "", TracebackImport),
      ProcExit(1, "", TracebackImportIndent),
      ProcExit(1, "", "FAILED (failures=1)"),
      ProcExit(1, "", ""),
      ProcTimeout }

\* What "git commit" can do: it commits (only in a repository), or it fails
CommitProcs(repo) ==
    {ProcExit(1, "nothing to commit", "")}
        \cup (IF repo THEN {ProcExit(0, "[main 1a2b3c4] feat", "")}
                      ELSE {ProcExit(128, "", "fatal: not a git repository")})

Stage(name, status, detail) == [name |-> name, status |-> status, detail |-> detail]

Names(sts) == [k \in 1..Len(sts) |-> sts[k].name]

\* history entries
NoEv ==
    [ev |-> "none", phase |-> "", command |-> "", proc |-> ProcTimeout,
     output |-> "", failing |-> FALSE]

CheckEv(phase, cmd, proc, out, failing) ==
    [ev |-> "check", phase |-> phase, command |-> cmd, proc |-> proc,
     output |-> out, failing |-> failing]

FixEv(res) ==
    [ev |-> "fix", phase |-> "repair", command |-> "", proc |-> ProcTimeout,
     output |-> "", failing |-> (res = "fixed")]

RaiseEv(phase, detail) ==
    [ev |-> "raise", phase |-> phase, command |-> "", proc |-> ProcTimeout,
     output |-> detail, failing |-> TRUE]

\* The history of a run: the number of check commands run by the repair
\* loop and of fixes it applied, whether every check output so far contained
\* "Traceback", whether some check timed out, the check of Verify, the last
\* event and the output of the last check of the repair loop.
NoHist ==
    [checks |-> 0, fixes |-> 0, all_traceback |-> TRUE, verify |-> NoEv, last |-> NoEv,
     error |-> ""]

Checked(h, e) ==
    [h EXCEPT !.checks = IF e.phase = "repair" THEN @ + 1 ELSE @,
              !.all_traceback = @ /\ Contains(e.output, "Traceback"),
              !.verify = IF e.phase = "verify" THEN e ELSE @,
              !.error = IF e.phase = "repair" THEN e.output ELSE @,
              !.last = e]

Fixed(h, e) == [h EXCEPT !.fixes = IF e.failing THEN @ + 1 ELSE @, !.last = e]

Raised(h, e) == [h EXCEPT !.last = e]

\* write_file(path, content): creates the parent directory and the file
write_file(f, path, content) ==
    [f EXCEPT !.dir = TRUE, !.files = [@ EXCEPT ![path] = content]]

\* the name ends with .py and is in the project directory
py_files(f) == { n \in Filenames : f.dir /\ f.files[PathOf(n)] # Missing /\ EndsWith(n, ".py") }

\* detect_project_type(path) contains 'python'
detects_python(f) == py_files(f) # {}

-----------------------------------------------------------------------------
(* executor.py: ExecutionPipeline.execute_goal, one action per stage *)

NoFile == [p \in Paths |-> Missing]

\* The project directory before the run: absent, or present (a repository
\* or not) with or without an earlier main.py.
InitFs ==
    { [dir |-> d, repo |-> r, files |-> fl] :
        d \in BOOLEAN, r \in BOOLEAN,
        fl \in {NoFile, [NoFile EXCEPT ![PathOf("main.py")] = "\tpass"]} }

UsableFs == { f \in InitFs : (f.repo => f.dir) /\ (f.files # NoFile => f.dir) }

\* The slip of assigning the list instead of appending to it.
AppendStage_Overwrite(st) == [report EXCEPT !.stages = <<st>>]

\* report["stages"].append(st)
AppendStage(st) == [report EXCEPT !.stages = Append(@, st)]

\* execute_goal after Verify: "if not test_passed" runs Repair, else
\* "if test_passed" runs Commit
after_verify_AlwaysRepair(passed) == "repair"

after_verify(passed) == IF ~passed THEN "repair" ELSE "commit"

\* execute_goal after Repair: "if test_passed" runs Commit, else the run ends
after_repair_AlwaysCommit(passed) == "commit"

after_repair(passed) == IF passed THEN "commit" ELSE "return"

\* The slip of an except clause that only logs.
RaiseFrom_NoErrorStage(h, phase, detail) ==
    /\ report' = report
    /\ hist' = Raised(h, RaiseEv(phase, detail))
    /\ pc' = "return"

\* the except clause of execute_goal: an exception raised by a stage, after
\* history h
RaiseFrom(h, phase, detail) ==
    /\ report' = AppendStage(Stage("error", "fail", detail))
    /\ hist' = Raised(h, RaiseEv(phase, detail))
    /\ pc' = "return"

\* execute_goal(goal, project_path): the report is created
ExecuteGoal ==
    /\ pc = "idle"
    /\ \E g \in UsableGoals : goal' = g
    /\ report' = [goal |-> goal'.description, path |-> project_path,
                  stages |-> <<>>, success |-> FALSE]
    /\ pc' = "setup"
    /\ test_passed' = FALSE
    /\ attempt' = 0
    /\ returned' = <<>>
    /\ hist' = NoHist
    /\ UNCHANGED <<llm, fs, commits>>
    /\ UNCHANGED otherVars

\* _stage_setup: make_dir and git_init when the path does not exist
StageSetup ==
    /\ pc = "setup"
    /\ IF ~fs.dir
       THEN /\ \E init_ok \in BOOLEAN : fs' = [fs EXCEPT !.dir = TRUE, !.repo = init_ok]
            /\ report' = AppendStage(Stage("setup", "ok", "created"))
       ELSE /\ fs' = fs
            /\ report' = AppendStage(Stage("setup", "ok", "exists"))
    /\ pc' = "codegen"
    /\ UNCHANGED <<goal, llm, test_passed, attempt, returned, commits, hist>>
    /\ UNCHANGED otherVars

RECURSIVE WriteAll(_, _)
\* the loop of _stage_codegen over goal["files"].items()
WriteAll(f, files) ==
    IF files = <<>> THEN f
    ELSE WriteAll(write_file(f, PathOf(files[1].filename), files[1].content), Tail(files))

SkeletonCode(desc) ==
    "#!/usr/bin/env python3\n\"\"\"" \o desc \o "\"\"\"\n\ndef main():\n    print(\""
        \o desc \o "\")\n\nif __name__ == \"__main__\":\n    main()\n"

CodegenDetail(files_written) ==
    "wrote " \o IntToStr(Len(files_written)) \o " files: " \o Join(", ", files_written)

\* _stage_codegen, with _llm_codegen
StageCodegen ==
    /\ pc = "codegen"
    /\ \/ /\ goal.has_files
          /\ fs' = WriteAll(fs, goal.files)
          /\ report' = AppendStage(Stage("codegen", "ok",
                          CodegenDetail([k \in 1..Len(goal.files) |-> goal.files[k].filename])))
          /\ UNCHANGED <<goal, hist>>
          /\ pc' = "verify"
       \/ /\ ~goal.has_files /\ llm
          /\ \E plan \in Plans, code \in Generated :
                LET written == IF code # NoCode THEN <<"main.py">> ELSE <<>>
                    fs1 == IF code # NoCode THEN write_file(fs, PathOf("main.py"), code) ELSE fs
                IN  IF plan.kind = "list"
                    THEN /\ RaiseFrom(hist, "codegen", "'list' object has no attribute 'items'")
                         /\ UNCHANGED <<goal, fs>>
                    ELSE /\ fs' = fs1
                         /\ goal' = IF plan.kind = "mapping" /\ plan.has_test_cmd
                                    THEN [goal EXCEPT !.has_test_cmd = TRUE,
                                                      !.test_cmd = plan.test_cmd]
                                    ELSE goal
                         /\ report' = AppendStage(Stage("codegen", "ok", CodegenDetail(written)))
                         /\ pc' = "verify"
                         /\ UNCHANGED hist
       \/ /\ ~goal.has_files /\ ~llm
          /\ fs' = write_file(fs, PathOf("main.py"), SkeletonCode(goal.description))
          /\ report' = AppendStage(Stage("codegen", "ok", CodegenDetail(<<"main.py">>)))
          /\ UNCHANGED <<goal, hist>>
          /\ pc' = "verify"
    /\ UNCHANGED <<llm, test_passed, attempt, returned, commits>>
    /\ UNCHANGED otherVars

VerifyDefaultCmd ==
    "python3 -m unittest discover -s . -v 2>&1 || python3 -m py_compile *.py 2>&1"

VERIFY_TIMEOUT == 60

\* _stage_verify
StageVerify ==
    /\ pc = "verify"
    /\ \/ /\ goal.has_test_cmd \/ detects_python(fs)
          /\ \E proc \in CheckProcs :
                LET cmd    == IF goal.has_test_cmd THEN goal.test_cmd ELSE VerifyDefaultCmd
                    output == run_command(cmd, VERIFY_TIMEOUT, proc)
                    passed == ~is_test_failure(output)
                    st     == Stage("verify", IF passed THEN "ok" ELSE "fail", Trunc(output, 300))
                IN  /\ report' = AppendStage(IF goal.has_test_cmd
                                             THEN [name |-> st.name, status |-> st.status,
                                                   detail |-> st.detail, command |-> cmd]
                                             ELSE st)
                    /\ test_passed' = passed
                    /\ hist' = Checked(hist, CheckEv("verify", cmd, proc, output, ~passed))
                    /\ pc' = after_verify(passed)
       \/ /\ ~goal.has_test_cmd /\ ~detects_python(fs)
          /\ report' = AppendStage(Stage("verify", "ok", "no tests configured, syntax check only"))
          /\ test_passed' = TRUE
          /\ pc' = after_verify(TRUE)
          /\ UNCHANGED hist
    /\ UNCHANGED <<goal, llm, attempt, returned, fs, commits>>
    /\ UNCHANGED otherVars

RepairDefaultCmd == "python3 -m py_compile *.py 2>&1"

REPAIR_TIMEOUT == 30

\* the .py files of the project that read_file can read
Readable(f) == { n \in py_files(f) : ~StartsWith(read_file(f.files, PathOf(n)), "ERROR") }

\* _llm_repair on file system f: the outcomes the backend's answers allow.
\* The first file for which generate_fix returns code that differs from the
\* file is rewritten; when there is none nothing is fixed.
llm_repair(f) ==
    {FixOutcome("notfixed", f.files, "")}
        \cup { FixOutcome("fixed", [f.files EXCEPT ![PathOf(q[1])] = q[2]], "") :
                 q \in { r \in Readable(f) \X Contents : r[2] # f.files[PathOf(r[1])] } }

\* the fix of one repair attempt: the backend when available, else the
\* pattern table
FixOutcomes(f, error_output) ==
    IF llm THEN llm_repair(f) ELSE {pattern_repair(f.files, error_output)}

\* the loop of _stage_repair ends without success
RepairFailed ==
    Stage("repair", "fail", "failed after " \o IntToStr(MAX_FIX_ATTEMPTS) \o " attempts")

\* The slip of naming the attempt by the loop index.
repair_ok_LoopIndex(n) == Stage("repair", "ok", "fixed on attempt " \o IntToStr(n))

\* _stage_repair, lines 230-236: the report of the attempt, range(3) index n,
\* whose check does not fail
repair_ok(n) == Stage("repair", "ok", "fixed on attempt " \o IntToStr(n + 1))

\* _stage_repair: one iteration of the loop; the iteration that leaves the
\* loop also appends the stage report
RepairAttempt ==
    /\ pc = "repair"
    /\ attempt < MAX_FIX_ATTEMPTS
    /\ \E proc \in CheckProcs :
          LET cmd          == IF goal.has_test_cmd THEN goal.test_cmd ELSE RepairDefaultCmd
              error_output == run_command(cmd, REPAIR_TIMEOUT, proc)
              failing      == is_test_failure(error_output)
              checked      == Checked(hist, CheckEv("repair", cmd, proc, error_output, failing))
          IN  IF ~failing
              THEN /\ report' = AppendStage(repair_ok(attempt))
                   /\ test_passed' = TRUE
                   /\ pc' = after_repair(TRUE)
                   /\ hist' = checked
                   /\ UNCHANGED <<attempt, fs>>
              ELSE \E o \in FixOutcomes(fs, error_output) :
                     IF o.result = "raise"
                     THEN /\ RaiseFrom(checked, "repair", o.detail)
                          /\ UNCHANGED <<attempt, fs, test_passed>>
                     ELSE /\ fs' = [fs EXCEPT !.files = o.files]
                          /\ hist' = Fixed(checked, FixEv(o.result))
                          /\ attempt' = attempt + 1
                          /\ IF o.result = "fixed" /\ attempt + 1 < MAX_FIX_ATTEMPTS
                             THEN /\ pc' = "repair"
                                  /\ UNCHANGED <<report, test_passed>>
                             ELSE /\ report' = AppendStage(RepairFailed)
                                  /\ test_passed' = FALSE
                                  /\ pc' = after_repair(FALSE)
    /\ UNCHANGED <<goal, llm, returned, commits>>
    /\ UNCHANGED otherVars

COMMIT_TIMEOUT == 60

\* The slip of leaving out report["success"] = True.
committed_NoSuccessFlag(result) == AppendStage(Stage("commit", "ok", Trunc(result, 200)))

\* The variant that reports a failed commit command: status 'fail' and no
\* success flag when the result is an error text.
committed_FailOnError(result) ==
    IF StartsWith(result, "ERROR")
    THEN AppendStage(Stage("commit", "fail", Trunc(result, 200)))
    ELSE [AppendStage(Stage("commit", "ok", Trunc(result, 200))) EXCEPT !.success = TRUE]

\* the report after _stage_commit and report["success"] = True
committed(result) ==
    [AppendStage(Stage("commit", "ok", Trunc(result, 200))) EXCEPT !.success = TRUE]

\* _stage_commit, with git_commit, and the success flag set after it
StageCommit ==
    /\ pc = "commit"
    /\ \E proc \in CommitProcs(fs.repo) :
          LET desc   == goal.description
              cmd    == "git commit -m \"" \o ("feat: " \o desc) \o "\""
              result == run_command(cmd, COMMIT_TIMEOUT, proc)
              made   == check_safety(cmd) /\ proc.kind = "exit" /\ proc.returncode = 0
          IN  /\ commits' = IF made THEN commits + 1 ELSE commits
              /\ report' = committed(result)
    /\ pc' = "return"
    /\ UNCHANGED <<goal, llm, test_passed, attempt, returned, fs, hist>>
    /\ UNCHANGED otherVars

\* return report["success"], report
Return ==
    /\ pc = "return"
    /\ returned' = <<report.success>>
    /\ pc' = "done"
    /\ UNCHANGED <<goal, llm, report, test_passed, attempt, fs, commits, hist>>
    /\ UNCHANGED otherVars

Init ==
    /\ pc = "idle"
    /\ goal = CHOOSE g \in UsableGoals : TRUE
    /\ llm \in BOOLEAN
    /\ report = [goal |-> "", path |-> project_path, stages |-> <<>>, success |-> FALSE]
    /\ test_passed = FALSE
    /\ attempt = 0
    /\ returned = <<>>
    /\ fs \in UsableFs
    /\ commits = 0
    /\ hist = NoHist
    /\ agent = AgentOff
    /\ cyc = NoCycles
    /\ MemInit
    /\ probe = NoProbe

Next ==
    \/ ExecuteGoal
    \/ StageSetup
    \/ StageCodegen
    \/ StageVerify
    \/ RepairAttempt
    \/ StageCommit
    \/ Return

Spec == Init /\ [][Next]_vars

\* A Memory driven by record_success and record_failure calls; no pipeline
\* run is in progress.
MemSpecInit ==
    /\ pc = "idle"
    /\ goal = CHOOSE g \in UsableGoals : TRUE
    /\ llm = FALSE
    /\ report = [goal |-> "", path |-> project_path, stages |-> <<>>, success |-> FALSE]
    /\ test_passed = FALSE
    /\ attempt = 0
    /\ returned = <<>>
    /\ fs = [dir |-> FALSE, repo |-> FALSE, files |-> NoFile]
    /\ commits = 0
    /\ hist = NoHist
    /\ agent = AgentOff
    /\ cyc = NoCycles
    /\ MemInit
    /\ probe = NoProbe

MemNext ==
    \/ RecordSuccess
    \/ RecordFailure

MemSpec == MemSpecInit /\ [][MemNext]_vars

\* A Memory driven by every mutating call and by restarts over the same
\* directory; the directory is written by this Memory only.
StoreNext ==
    \/ WithinOps /\ RecordSuccess
    \/ WithinOps /\ RecordFailure
    \/ RecordAction
    \/ RegisterProject
    \/ UpdateProject
    \/ Restart

StoreSpec == MemSpecInit /\ [][StoreNext]_vars

\* The construction of a Memory over a directory whose files are absent,
\* damaged, or as an earlier process left them.
BootInit ==
    /\ pc = "idle"
    /\ goal = CHOOSE g \in UsableGoals : TRUE
    /\ llm = FALSE
    /\ report = [goal |-> "", path |-> project_path, stages |-> <<>>, success |-> FALSE]
    /\ test_passed = FALSE
    /\ attempt = 0
    /\ returned = <<>>
    /\ fs = [dir |-> FALSE, repo |-> FALSE, files |-> NoFile]
    /\ commits = 0
    /\ hist = NoHist
    /\ agent = AgentOff
    /\ cyc = NoCycles
    /\ probe = NoProbe
    /\ mem = "down"
    /\ state = DefaultState
    /\ projects = DefaultProjects
    /\ patterns = DefaultPatterns
    /\ state_file \in FilesOf(dump_state(DefaultState), dump_state(OldState))
    /\ projects_file \in FilesOf(dump_projects(DefaultProjects), dump_projects(OldProjects))
    /\ patterns_file \in FilesOf(dump_patterns(DefaultPatterns), dump_patterns(OldPatterns))
    /\ history_file = NoHistoryFile
    /\ now = 9
    /\ calls = [success |-> 0, failure |-> 0, last |-> <<"none", None>>]

BootNext == Boot

BootSpec == BootInit /\ [][BootNext]_vars

\* The agent as main() runs it: the Memory is constructed over an empty
\* directory, the mode is selected once, and the loop is started.
AgentInit ==
    /\ pc = "idle"
    /\ goal = CHOOSE g \in UsableGoals : TRUE
    /\ llm = FALSE
    /\ report = [goal |-> "", path |-> project_path, stages |-> <<>>, success |-> FALSE]
    /\ test_passed = FALSE
    /\ attempt = 0
    /\ returned = <<>>
    /\ fs = [dir |-> FALSE, repo |-> FALSE, files |-> NoFile]
    /\ commits = 0
    /\ hist = NoHist
    /\ \E mode \in Modes, backend \in BOOLEAN :
          agent = [AgentOff EXCEPT !.pc = "main", !.mode = mode, !.llm = backend]
    /\ cyc = NoCycles
    /\ MemInit
    /\ probe = NoProbe

AgentNext ==
    \/ StartLoop
    \/ OperatorCycle
    \/ HybridCycle
    \/ AutonomousCycle
    \/ Dispatch
    \/ FinishCommand
    \/ PipelineReturn
    \/ Backoff
    \/ Interrupt

AgentSpec == AgentInit /\ [][AgentNext]_vars

\* The failure classifier applied to one check output.
ClassifyInit ==
    /\ pc = "idle"
    /\ goal = CHOOSE g \in UsableGoals : TRUE
    /\ llm = FALSE
    /\ report = [goal |-> "", path |-> project_path, stages |-> <<>>, success |-> FALSE]
    /\ test_passed = FALSE
    /\ attempt = 0
    /\ returned = <<>>
    /\ fs = [dir |-> FALSE, repo |-> FALSE, files |-> NoFile]
    /\ commits = 0
    /\ hist = NoHist
    /\ agent = AgentOff
    /\ cyc = NoCycles
    /\ MemInit
    /\ \E o \in ProbeOutputs : probe = [NoProbe EXCEPT !.output = o]

ClassifyNext == Classify

ClassifySpec == ClassifyInit /\ [][ClassifyNext]_vars

\* execute_tool_calls applied to one list of tool calls.
ToolCallsInit ==
    /\ pc = "idle"
    /\ goal = CHOOSE g \in UsableGoals : TRUE
    /\ llm = FALSE
    /\ report = [goal |-> "", path |-> project_path, stages |-> <<>>, success |-> FALSE]
    /\ test_passed = FALSE
    /\ attempt = 0
    /\ returned = <<>>
    /\ fs = [dir |-> FALSE, repo |-> FALSE, files |-> NoFile]
    /\ commits = 0
    /\ hist = NoHist
    /\ agent = AgentOff
    /\ cyc = NoCycles
    /\ MemInit
    /\ \E l \in CallLists(MaxCalls) : probe = [NoCalls EXCEPT !.tool_calls = l]

ToolCallsNext == ExecuteToolCalls

ToolCallsSpec == ToolCallsInit /\ [][ToolCallsNext]_vars

\* parse applied to one input, with or without a latest project.
ParseInit ==
    /\ pc = "idle"
    /\ goal = CHOOSE g \in UsableGoals : TRUE
    /\ llm = FALSE
    /\ report = [goal |-> "", path |-> project_path, stages |-> <<>>, success |-> FALSE]
    /\ test_passed = FALSE
    /\ attempt = 0
    /\ returned = <<>>
    /\ fs = [dir |-> FALSE, repo |-> FALSE, files |-> NoFile]
    /\ commits = 0
    /\ hist = NoHist
    /\ agent = AgentOff
    /\ cyc = NoCycles
    /\ MemInit
    /\ \E t \in ParseInputs, l \in {None, "/projects/demo"} :
          probe = [NoParse EXCEPT !.input = t, !.latest = l]

ParseNext == Parse

ParseSpec == ParseInit /\ [][ParseNext]_vars

\* _pattern_repair applied to one error text on one set of files.
PatternInit ==
    /\ pc = "idle"
    /\ goal = CHOOSE g \in UsableGoals : TRUE
    /\ llm = FALSE
    /\ report = [goal |-> "", path |-> project_path, stages |-> <<>>, success |-> FALSE]
    /\ test_passed = FALSE
    /\ attempt = 0
    /\ returned = <<>>
    /\ fs = [dir |-> FALSE, repo |-> FALSE, files |-> NoFile]
    /\ commits = 0
    /\ hist = NoHist
    /\ agent = AgentOff
    /\ cyc = NoCycles
    /\ MemInit
    /\ \E f \in FileMaps, e \in ErrorTexts(MaxLines) :
          probe = [NoRepair EXCEPT !.files = f, !.error_msg = e]

PatternNext == PatternRepair

PatternSpec == PatternInit /\ [][PatternNext]_vars

\* The autonomous loop without a bound on its cycles.  _generate_goal reads
\* only completed_goals and failed_goals, so the loop is followed on the
\* agent's lists and on the project directories; the Memory, whose counters
\* and logs only grow and which the selection never reads, stays as
\* constructed.

\* _autonomous_cycle, lines 189-192: random.choice draws template t from
\* the templates _generate_goal has found available
SelectGoal(t) ==
    /\ agent.pc = "loop"
    /\ agent.mode = "autonomous"
    /\ agent.current_goal = None
    /\ LET g == generate_goal(agent.completed_goals, agent.failed_goals)
       IN  /\ t \in g.available
           /\ agent' = [agent EXCEPT !.pc = "pipeline",
                                     !.current_goal = t,
                                     !.completed_goals = g.completed,
                                     !.failed_goals = g.failed]
    /\ UNCHANGED <<cyc, mem, pipeVars, probe>>
    /\ MemoryUnchanged

\* _autonomous_cycle, lines 199-227: execute_goal returns success, the goal
\* joins completed_goals or failed_goals and is dropped
GoalReturn(success) ==
    /\ agent.pc = "pipeline"
    /\ agent' = [agent EXCEPT
                    !.pc = "loop",
                    !.current_goal = None,
                    !.dirs = @ \cup {agent.current_goal},
                    !.completed_goals = IF success THEN @ \cup {agent.current_goal} ELSE @,
                    !.failed_goals = IF success THEN @ ELSE @ \cup {agent.current_goal}]
    /\ UNCHANGED <<cyc, mem, pipeVars, probe>>
    /\ MemoryUnchanged

SelectionInit ==
    /\ pc = "idle"
    /\ goal = CHOOSE g \in UsableGoals : TRUE
    /\ llm = FALSE
    /\ report = [goal |-> "", path |-> project_path, stages |-> <<>>, success |-> FALSE]
    /\ test_passed = FALSE
    /\ attempt = 0
    /\ returned = <<>>
    /\ fs = [dir |-> FALSE, repo |-> FALSE, files |-> NoFile]
    /\ commits = 0
    /\ hist = NoHist
    /\ \E backend \in BOOLEAN :
          agent = [AgentOff EXCEPT !.pc = "main", !.mode = "autonomous", !.llm = backend]
    /\ cyc = NoCycles
    /\ MemInit
    /\ probe = NoProbe

SelectionNext ==
    \/ StartLoop
    \/ \E t \in AllTemplates : SelectGoal(t)
    \/ \E success \in BOOLEAN : GoalReturn(success)

\* The loop keeps running, and random.choice is fair: a template that is
\* available again and again is drawn at some time.  Nothing is assumed of
\* the outcome of a run.
SelectionFairness ==
    /\ WF_vars(StartLoop)
    /\ WF_vars(\E success \in BOOLEAN : GoalReturn(success))
    /\ \A t \in AllTemplates : SF_vars(SelectGoal(t))

SelectionSpec == SelectionInit /\ [][SelectionNext]_vars /\ SelectionFairness

-----------------------------------------------------------------------------
(* Properties of a pipeline run *)

stages == report.stages

HasStage(n) == \E k \in 1..Len(stages) : stages[k].name = n

HasStageWith(n, st) == \E k \in 1..Len(stages) : stages[k].name = n /\ stages[k].status = st

CountStage(n) == Cardinality({ k \in 1..Len(stages) : stages[k].name = n })

VerifyPassed == HasStageWith("verify", "ok")

RepairSucceeded == HasStageWith("repair", "ok")

Rank(n) ==
    CASE n = "setup" -> 1 [] n = "codegen" -> 2 [] n = "verify" -> 3
      [] n = "repair" -> 4 [] n = "commit" -> 5 [] n = "error" -> 6

\* C1: overall success is true exactly when Verify passed or Repair
\* succeeded, and the flag execute_goal returns is the report's success.
C1_SuccessIffVerifyOrRepair ==
    /\ pc \in {"return", "done"} => (report.success <=> (VerifyPassed \/ RepairSucceeded))
    /\ pc = "done" => returned = <<report.success>>
    /\ report.success => pc \in {"return", "done"}

C1_Witness ==
    /\ pc = "done"
    /\ returned = <<TRUE>>
    /\ RepairSucceeded
    /\ ~VerifyPassed

\* The stage names are in the fixed order, each at most once, an error last,
\* and setup, codegen, verify open every sequence in that order.
StagesOrdered ==
    /\ \A i, j \in 1..Len(stages) : i < j => Rank(stages[i].name) < Rank(stages[j].name)
    /\ \A k \in 1..Len(stages) :
          stages[k].name # "error" =>
             /\ k <= 3 => Rank(stages[k].name) = k
             /\ k > 3 => stages[k].name \in {"repair", "commit"}

StagesExtended ==
    \/ report'.stages = report.stages
    \/ /\ Len(report'.stages) = Len(report.stages) + 1
       /\ SubSeq(report'.stages, 1, Len(report.stages)) = report.stages

\* C2: the Stage Report sequence of a run is append-only and follows the
\* order setup, codegen, verify, at most one repair, at most one commit; no
\* name occurs twice and an error stage is the last entry.
C2_StagesAppendOnlyInOrder == [](StagesOrdered) /\ [][StagesExtended]_vars

C2_Witness ==
    /\ pc = "done"
    /\ Names(stages) = <<"setup", "codegen", "verify", "repair", "commit">>

\* C3: a repair entry is present only when the verify entry has status
\* fail, and when Verify passes the next stage is Commit.
C3_RepairOnlyAfterVerifyFails ==
    /\ HasStage("repair") => HasStageWith("verify", "fail")
    /\ \A k \in 1..Len(stages) :
          stages[k].name = "verify" /\ stages[k].status = "ok" =>
             /\ k < Len(stages) => stages[k + 1].name = "commit"
             /\ k = Len(stages) => pc = "commit"

C3_Witness ==
    /\ HasStage("repair")
    /\ HasStageWith("verify", "fail")
    /\ pc = "done"

\* C4: when Repair ends without success the run fails and Commit is
\* skipped: no commit stage, no commit in the repository; a commit stage is
\* present only in runs whose success is true.
C4_FailedRepairSkipsCommit ==
    /\ HasStageWith("repair", "fail") =>
          /\ ~HasStage("commit")
          /\ commits = 0
          /\ ~report.success
          /\ pc \in {"return", "done"}
          /\ pc = "done" => returned = <<FALSE>>
    /\ HasStage("commit") => report.success

C4_Witness ==
    /\ pc = "done"
    /\ HasStageWith("repair", "fail")
    /\ hist.fixes >= 1

\* C5: an exception raised by a stage aborts the run, appends exactly one
\* error stage with status fail and makes execute_goal return success =
\* false; the exception does not leave execute_goal.
C5_ExceptionGivesErrorStage ==
    /\ hist.last.ev = "raise" =>
          /\ stages # <<>>
          /\ stages[Len(stages)] = Stage("error", "fail", hist.last.output)
          /\ CountStage("error") = 1
          /\ ~report.success
          /\ pc \in {"return", "done"}
          /\ pc = "done" => returned = <<FALSE>>
    /\ HasStage("error") => hist.last.ev = "raise"

C5_Witness ==
    /\ pc = "done"
    /\ hist.last.ev = "raise"
    /\ hist.last.phase = "repair"

\* C6: a goal with literal files and a test command whose output is exactly
\* "OK" gives success = true and the stages setup, codegen, verify, commit,
\* all ok, with no repair stage.
C6_LiteralFilesAndOkPass ==
    (/\ pc = "done"
     /\ goal.has_files
     /\ goal.has_test_cmd
     /\ hist.verify.ev = "check"
     /\ hist.verify.output = "OK")
    => /\ returned = <<TRUE>>
       /\ Names(stages) = <<"setup", "codegen", "verify", "commit">>
       /\ \A k \in 1..Len(stages) : stages[k].status = "ok"

C6_Witness ==
    /\ pc = "done"
    /\ goal.has_files
    /\ goal.has_test_cmd
    /\ hist.verify.ev = "check"
    /\ hist.verify.output = "OK"

\* C7: with no generation backend, a goal whose test command output always
\* contains "Traceback" gives success = false, exactly one repair entry,
\* with status fail, and at most 3 repair attempts.
C7_TracebackRunFailsInRepair ==
    (/\ pc = "done"
     /\ ~llm
     /\ goal.has_test_cmd
     /\ hist.verify.ev = "check"
     /\ hist.all_traceback)
    => /\ returned = <<FALSE>>
       /\ CountStage("repair") = 1
       /\ HasStageWith("repair", "fail")
       /\ hist.checks <= MAX_FIX_ATTEMPTS

\* C8: a check output with a success marker ("OK", "passed", or a last
\* character 0 after trimming) and without "Traceback" is classified as
\* passing, whatever failure indicators it contains.
C8_SuccessMarkersTakePrecedence ==
    (/\ probe.done
     /\ \/ Contains(probe.output, "OK")
        \/ Contains(probe.output, "passed")
        \/ EndsWith(Strip(probe.output), "0")
     /\ ~Contains(probe.output, "Traceback"))
    => ~probe.failing

C8_Witness ==
    /\ probe.done
    /\ ~probe.failing
    /\ Contains(probe.output, "OK")
    /\ Contains(probe.output, "Error")
    /\ Contains(probe.output, "FAILED")

\* the goal's test command, or the check of a repair attempt, was launched
\* and ran into the timeout
TimedOut(e) ==
    /\ e.ev = "check"
    /\ e.phase = "verify" => goal.has_test_cmd
    /\ check_safety(e.command)
    /\ e.proc.kind = "timeout"

\* C9: a check command that times out counts as a failing check: Verify
\* reports status fail, and a repair attempt whose check timed out does not
\* report success.
C9_TimeoutIsAFailingCheck ==
    /\ TimedOut(hist.verify) => HasStageWith("verify", "fail")
    /\ TimedOut(hist.last) /\ hist.last.phase = "repair" => ~RepairSucceeded

-----------------------------------------------------------------------------
(* Properties of the Memory *)

\* lst holds the last Min(n, 100) of the n entries appended, in append order
HoldsMostRecent(lst, n) ==
    /\ Len(lst) = Min(n, 100)
    /\ \A k \in 1..Len(lst) : lst[k].timestamp = n - Len(lst) + k

\* C10: after any record_success and record_failure calls each pattern list
\* holds at most 100 entries, the most recently appended ones in append
\* order; after 101 record_success calls the list holds entries 2 to 101.
C10_PatternListsCapped ==
    /\ Len(patterns.successful_patterns) <= 100
    /\ Len(patterns.failed_patterns) <= 100
    /\ HoldsMostRecent(patterns.successful_patterns, calls.success)
    /\ HoldsMostRecent(patterns.failed_patterns, calls.failure)
    /\ calls.success = 101 =>
          [k \in 1..100 |-> patterns.successful_patterns[k].timestamp] = [k \in 1..100 |-> k + 1]

C10_Witness ==
    /\ calls.success = 101
    /\ calls.failure = 101
    /\ Len(patterns.successful_patterns) = 100
    /\ patterns.successful_patterns[1].timestamp = 2
    /\ patterns.successful_patterns[100].timestamp = 101
    /\ patterns.failed_patterns[1].timestamp = 2

\* what is on disk is what the Memory holds: a collection that was saved is
\* the dump of the one in memory, one that never was is still the default
DiskMatches ==
    /\ state_file = save_json(dump_state(state))
    /\ IF projects_file.kind = "json"
       THEN projects_file.doc = dump_projects(projects)
       ELSE projects_file.kind = "missing" /\ projects = DefaultProjects
    /\ IF patterns_file.kind = "json"
       THEN patterns_file.doc = dump_patterns(patterns)
       ELSE patterns_file.kind = "missing" /\ patterns = DefaultPatterns

\* loading the directory gives the collections the Memory holds
Reloads ==
    /\ load_state(load_json(state_file, dump_state(DefaultState)).doc) = state
    /\ load_projects(load_json(projects_file, dump_projects(DefaultProjects)).doc) = projects
    /\ load_patterns(load_json(patterns_file, dump_patterns(DefaultPatterns)).doc) = patterns

\* the step is the construction of a new Memory
IsRestart == state'.boot_count # state.boot_count

RestartKeeps ==
    /\ mem' = "up"
    /\ state'.boot_count = state.boot_count + 1
    /\ state'.total_goals_completed = state.total_goals_completed
    /\ state'.total_goals_failed = state.total_goals_failed
    /\ state'.total_commands_executed = state.total_commands_executed
    /\ state'.last_active_project = state.last_active_project
    /\ projects' = projects
    /\ patterns' = patterns

\* C11: after any sequence of record_action, register_project,
\* update_project, record_success and record_failure calls without I/O
\* error, every saved collection on disk equals the one in memory, and a new
\* Memory over the same directory loads the same counters, registry and
\* pattern lists with boot_count increased by exactly 1.
C11_MemorySurvivesRestart ==
    /\ [](mem = "up" => DiskMatches /\ Reloads)
    /\ [][IsRestart => RestartKeeps]_vars

C11_Witness ==
    /\ mem = "up"
    /\ state.boot_count = 2
    /\ state.last_boot = <<now - 1>>
    /\ state.last_active_project = "json_parser"
    /\ "json_parser" \in DOMAIN projects
    /\ state.total_goals_completed = 1
    /\ Len(patterns.successful_patterns) = 1
    /\ state.total_commands_executed = 1

\* C12: constructing a Memory never fails because of what a persisted file
\* holds: a file that is absent or corrupt is replaced by the defaults of
\* its collection and the construction completes with the boot counted.
C12_ConstructionNeverFails ==
    /\ mem # "crashed"
    /\ mem = "up" =>
          /\ state.boot_count >= 1
          /\ projects_file.kind # "json" => projects = DefaultProjects
          /\ patterns_file.kind # "json" => patterns = DefaultPatterns

HistoryLines == history_file.doc

IsPrefix(a, b) == Len(a) <= Len(b) /\ SubSeq(b, 1, Len(a)) = a

C14_CountersFrame ==
    [][/\ state'.total_goals_completed >= state.total_goals_completed
       /\ state'.total_goals_failed >= state.total_goals_failed
       /\ calls'.success # calls.success =>
             /\ state'.total_goals_completed = state.total_goals_completed + 1
             /\ state'.total_goals_failed = state.total_goals_failed
             /\ patterns'.failed_patterns = patterns.failed_patterns
       /\ calls'.failure # calls.failure =>
             /\ state'.total_goals_failed = state.total_goals_failed + 1
             /\ state'.total_goals_completed = state.total_goals_completed
             /\ patterns'.successful_patterns = patterns.successful_patterns]_vars

C14_Witness ==
    /\ calls.success = 1
    /\ calls.failure = 1
    /\ state.total_goals_completed = 1
    /\ state.total_goals_failed = 1
    /\ Len(patterns.successful_patterns) = 1
    /\ Len(patterns.failed_patterns) = 1

\* C15: after a register_project(name, ...) or an update_project(name, ...)
\* call the registry holds a record for name that carries the supplied
\* fields, and last_active_project is name, whether or not name was
\* registered before.
C15_RegisterAndUpdateUpsert ==
    calls.last[1] \in {"register_project", "update_project"} =>
        /\ calls.last[2] \in DOMAIN projects
        /\ state.last_active_project = calls.last[2]
        /\ calls.last[1] = "update_project" => projects[calls.last[2]].test_pass = <<TRUE>>

-----------------------------------------------------------------------------
(* The agent loop *)

LastEntry == HistoryLines[Len(HistoryLines)]

InLoop == agent.pc \in {"loop", "dispatch", "pipeline", "backoff"}

C17_HybridOneOfTwo ==
    /\ [](cyc.kind = "hybrid" =>
            /\ cyc.operator_ran # cyc.autonomous_ran
            /\ cyc.input = "line" => cyc.operator_ran
            /\ cyc.input = "timeout" => cyc.autonomous_ran)
    /\ [][cyc'.n # cyc.n /\ cyc'.kind = "hybrid" =>
            /\ cyc'.autonomous_ran <=> agent'.pc = "pipeline"
            /\ cyc'.operator_ran <=>
                  /\ Len(HistoryLines') = Len(HistoryLines) + 1
                  /\ HistoryLines'[Len(HistoryLines')].type = json_str("operator_input")
            /\ cyc'.autonomous_ran => HistoryLines' = HistoryLines]_vars

C17_Witness ==
    /\ cyc.kind = "hybrid"
    /\ cyc.input = "line"
    /\ cyc.operator_ran
    /\ ~cyc.autonomous_ran
    /\ agent.pc = "dispatch"
    /\ cyc.returns = 1

\* C18: a goal is generated only when no goal is current, a generated goal
\* is run by the pipeline once and never a second time, and no cycle begins
\* with a current goal.
C18_GoalRunOnce ==
    /\ [](cyc.runs <= 1 /\ ~cyc.stale)
    /\ [][agent'.current_goal # agent.current_goal /\ agent'.current_goal # None =>
            agent.current_goal = None]_vars

\* C19: when the pipeline run of an autonomous cycle has returned, its
\* outcome is recorded once: record_success is called iff the run succeeded
\* and record_failure iff it failed, exactly one of total_goals_completed
\* and total_goals_failed grows by 1, and one pattern record of the goal is
\* appended to the matching list and none to the other.
C19_OutcomeRecordedOnce ==
    [][cyc'.returns # cyc.returns =>
         LET success == cyc'.ret[1]
             won  == IF success THEN 1 ELSE 0
             lost == IF success THEN 0 ELSE 1
             list == IF success THEN patterns'.successful_patterns
                     ELSE patterns'.failed_patterns
         IN  /\ calls'.success = calls.success + won
             /\ calls'.failure = calls.failure + lost
             /\ state'.total_goals_completed = state.total_goals_completed + won
             /\ state'.total_goals_failed = state.total_goals_failed + lost
             /\ Len(patterns'.successful_patterns) =
                   Len(patterns.successful_patterns) + won
             /\ Len(patterns'.failed_patterns) = Len(patterns.failed_patterns) + lost
             /\ list[Len(list)].goal = Template(agent.current_goal).description
             /\ agent.current_goal \in
                   (IF success THEN agent'.completed_goals ELSE agent'.failed_goals)]_vars

C19_Witness ==
    /\ cyc.returns = 2
    /\ cyc.ret = <<FALSE>>
    /\ calls.success = 1
    /\ calls.failure = 1
    /\ state.total_goals_completed = 1
    /\ state.total_goals_failed = 1
    /\ Len(patterns.successful_patterns) = 1
    /\ Len(patterns.failed_patterns) = 1

\* C20: while a plan is executed, an action whose tool is unknown or whose
\* tool raises is recorded in the history log as a failed entry of that
\* tool, and the actions after it are dispatched one by one in plan order.
C20_FailedActionsRecorded ==
    /\ [](\A i \in 1..Len(cyc.log) :
            cyc.log[i].outcome \in {"unknown", "raised"} =>
               \E j \in 1..Len(HistoryLines) :
                  /\ HistoryLines[j].timestamp = cyc.log[i].at
                  /\ HistoryLines[j].type = json_str("tool:" \o cyc.log[i].tool)
                  /\ HistoryLines[j].success = FALSE)
    /\ [][Len(cyc'.log) > Len(cyc.log) =>
            /\ agent'.pc = "dispatch"
            /\ agent'.plan.actions = Tail(agent.plan.actions)
            /\ cyc'.log[Len(cyc'.log)].tool = Head(agent.plan.actions).tool]_vars

-----------------------------------------------------------------------------
(* Properties of the dispatchers and of the sanitizer *)

MatchesForbidden(command) ==
    \E p \in 1..Len(FORBIDDEN_PATTERNS) : re_search(FORBIDDEN_PATTERNS[p], command)

UnsafeRun(call) ==
    /\ call.tool = "run"
    /\ call.args.kind = "object"
    /\ MatchesForbidden(Get(call.args, "command"))

\* the loop of execute_tool_calls comes to the k-th call
Reached(tool_calls, k) == \A j \in 1..(k - 1) : ~(tool_calls[j].tool = "run" /\ tool_calls[j].args.kind # "object")

\* C21: a 'run' action whose command matches a forbidden pattern is not
\* handed to the run tool by execute_tool_calls nor by the loop of
\* _execute_operator_command: its turn ends as blocked (the result "blocked
\* by safety", the BLOCKED warning), and the loop goes on to the next action.
C21_UnsafeRunNeverDispatched ==
    probe.done =>
       \A k \in 1..Len(probe.tool_calls) :
          LET tool_calls == probe.tool_calls
              ret   == probe.ret
          IN  UnsafeRun(tool_calls[k]) /\ Reached(tool_calls, k) =>
                 /\ k <= Len(ret.results)
                 /\ ret.results[k] = ToolError("run", "blocked by safety")
                 /\ \A n \in 1..Len(ret.invoked) : ret.invoked[n] # k
                 /\ k < Len(tool_calls) => Len(ret.results) > k \/ ret.raised
                 /\ dispatch_outcome(tool_calls[k]) = "blocked"
                 /\ rest_of_plan(Plan("shell", SubSeq(tool_calls, k, Len(tool_calls))), "blocked").actions
                       = SubSeq(tool_calls, k + 1, Len(tool_calls))

\* a forbidden command is blocked and the call after it is handed to its tool
C21_Witness ==
    /\ probe.done
    /\ Len(probe.tool_calls) = 2
    /\ UnsafeRun(probe.tool_calls[1])
    /\ probe.ret.results[1].text = "blocked by safety"
    /\ probe.ret.invoked = <<2>>

Protected(path) == \E p \in 1..Len(PROTECTED_PATHS) : StartsWith(path, PROTECTED_PATHS[p])

\* C22: no action that writes or deletes a path under a protected prefix is
\* executed by the agent; is_safe_path is false for such a write or delete
\* and true for a read of the same path.
C22_ProtectedPathsNeverModified ==
    \A i \in 1..Len(cyc.log) :
       LET e == cyc.log[i]
       IN  /\ is_safe_path(e.path, "read")
           /\ e.tool \in {"write", "delete"} /\ Protected(e.path) =>
                 /\ ~is_safe_path(e.path, e.tool)
                 /\ e.outcome # "returned"

\* the ASCII control characters of the model's texts other than newline
ControlChars == {"\t", "\r", "\f"}

\* C23: the text of every operator input handed to the interpreter (it is
\* recorded as the operator_input entry of the history) has at most 4096
\* characters and no ASCII control character other than newline.
C23_OperatorInputSanitized ==
    \A j \in 1..Len(HistoryLines) :
       HistoryLines[j].type = json_str("operator_input") =>
          LET text == json_unstr(HistoryLines[j].details)
          IN  /\ Len(text) <= MAX_INPUT
              /\ \A i \in 1..Len(text) : CharAt(text, i) \notin ControlChars

-----------------------------------------------------------------------------
(* Properties of the command parser *)

Tools(plan) == [k \in 1..Len(plan.actions) |-> plan.actions[k].tool]

\* TOOL: <name> ARGS: <json-object>
ToolGrammar ==
    <<Lit("TOOL:"), Sp0, Mark, Word1, Mark, Sp0, Lit("ARGS:"), Sp0, Mark, AllText, Mark>>

\* C24: for a line beginning with TOOL:, parse yields a tool_call plan with
\* one action for the named tool whose args are the JSON object of the
\* payload ({} for an empty payload), and no plan when the payload is
\* malformed or is not a JSON object.
C24_ToolProtocol ==
    probe.done /\ StartsWith(Strip(probe.input), "TOOL:") =>
       LET text    == Strip(probe.input)
           m       == MatchAt(text, 1, ToolGrammar, 1)
           payload == Strip(Group(text, m, 3))
           plan    == probe.plan
       IN  IF m.ok /\ (payload = "" \/ json_loads(payload).kind = "object")
           THEN /\ plan.some
                /\ plan.intent = "tool_call"
                /\ Tools(plan) = <<Group(text, m, 1)>>
                /\ plan.actions[1].args.kind = "object"
                /\ plan.actions[1].args.pairs =
                      IF payload = "" THEN <<>> ELSE json_loads(payload).pairs
           ELSE ~plan.some

FirstMatching(text) == CHOOSE e \in Matching(text) : \A f \in Matching(text) : e <= f

\* C25 as stated: for an input that matches patterns of more than one entry
\* the plan's intent is the intent of the earliest matching entry, and
\* "create project foo" yields create_project with its four actions.
C25_IntentOfEarliestEntry ==
    LET text == Strip(probe.input)
    IN  probe.done /\ ~StartsWith(text, "TOOL:") /\ Cardinality(Matching(text)) > 1 =>
           /\ probe.plan.some
           /\ probe.plan.intent = INTENT_PATTERNS[FirstMatching(text)].intent
           /\ text = "create project foo" =>
                 Tools(probe.plan) = <<"mkdir", "git_init", "write", "git_commit">>

\* the intents of the plans built for an entry: _plan_git_op names the plan
\* after the operation
Labels(intent) ==
    IF intent = "git_op" THEN {"git_commit", "git_status", "git_log", "git_op"} ELSE {intent}

\* C25: for an input that matches patterns of more than one entry the plan
\* is the one of the earliest matching entry: its intent is that entry's
\* intent, or for the git_op entry the name of the git operation, and
\* "create project foo" yields create_project with its four actions.
C25_FirstMatchWins ==
    LET text == Strip(probe.input)
    IN  probe.done /\ ~StartsWith(text, "TOOL:") /\ Cardinality(Matching(text)) > 1 =>
           /\ probe.plan.some
           /\ probe.plan.intent \in Labels(INTENT_PATTERNS[FirstMatching(text)].intent)
           /\ text = "create project foo" =>
                 /\ probe.plan.intent = "create_project"
                 /\ probe.plan.name = "foo"
                 /\ Tools(probe.plan) = <<"mkdir", "git_init", "write", "git_commit">>

\* "create project foo", which the entries create_project and create_tool
\* match, has been parsed
C25_Witness ==
    /\ probe.done
    /\ probe.input = "create project foo"
    /\ Cardinality(Matching(probe.input)) > 1
    /\ probe.plan.intent = "create_project"

ShellPlan(plan, command) ==
    /\ plan.some
    /\ plan.intent = "shell"
    /\ Tools(plan) = <<"run">>
    /\ Get(plan.actions[1].args, "command") = command

\* C26 as stated: a non-empty input that does not begin with TOOL: and
\* matches no entry gives a shell plan whose one 'run' action has the whole
\* input as its command, and parse gives no plan only for the empty input
\* and for a TOOL: line.
C26_FallbackVerbatim ==
    probe.done =>
       /\ probe.input # "" /\ ~StartsWith(probe.input, "TOOL:") /\ Matching(probe.input) = {}
             => ShellPlan(probe.plan, probe.input)
       /\ ~probe.plan.some => probe.input = "" \/ StartsWith(probe.input, "TOOL:")

\* C26: with text the input without its leading and trailing whitespace, a
\* non-empty text that does not begin with TOOL: and matches no entry gives
\* a shell plan whose one 'run' action has text as its command, and parse
\* gives no plan only for an empty text and for a TOOL: line.
C26_FallbackStripped ==
    LET text == Strip(probe.input)
    IN  probe.done =>
           /\ text # "" /\ ~StartsWith(text, "TOOL:") /\ Matching(text) = {}
                 => ShellPlan(probe.plan, text)
           /\ ~probe.plan.some => text = "" \/ StartsWith(text, "TOOL:")

\* a padded line that matches no entry has been parsed
C26_Witness ==
    /\ probe.done
    /\ probe.input = "  hello  "
    /\ Matching(Strip(probe.input)) = {}
    /\ ShellPlan(probe.plan, "hello")

-----------------------------------------------------------------------------
(* Properties of generation tasks *)

\* the command that was being executed ends (and not by an interrupt)
CommandEnds ==
    /\ agent.pc = "dispatch"
    /\ agent.plan.actions = <<>>
    /\ agent'.pc # "dispatch"
    /\ cyc'.interrupts = cyc.interrupts

\* C27: an operator command whose plan requires generation does not end in
\* an error nor with nothing generated: a pipeline run is started for it or
\* a project is created and registered.
C27_GenerationProducesWork ==
    [][CommandEnds /\ agent.plan.requires_generation =>
          /\ cyc'.errors = cyc.errors
          /\ agent'.pc = "pipeline" \/ (projects' # projects /\ agent'.dirs # {})]_vars

-----------------------------------------------------------------------------
(* Properties of the repair loop *)

LastStage(r) == r.stages[Len(r.stages)]

\* C28: a run re-runs the check command at most 3 times in the repair loop
\* and applies at most 3 fixes; a fix is applied only in a step that has
\* first re-run the check, every iteration that stays in the loop uses up
\* one of the 3 checks, and a re-run that is classified as not failing ends
\* the loop with a 'repair' report of status ok naming the attempt.
C28_RepairLoopBounded ==
    /\ [](/\ hist.checks <= MAX_FIX_ATTEMPTS
          /\ hist.fixes <= MAX_FIX_ATTEMPTS
          /\ hist.fixes <= hist.checks)
    /\ [][/\ hist'.fixes > hist.fixes =>
                hist'.fixes = hist.fixes + 1 /\ hist'.checks = hist.checks + 1
          /\ pc = "repair" /\ pc' = "repair" => hist'.checks = hist.checks + 1
          /\ (/\ hist'.checks = hist.checks + 1
              /\ hist'.last.ev = "check"
              /\ ~hist'.last.failing) =>
                /\ pc' # "repair"
                /\ test_passed'
                /\ Len(report'.stages) = Len(report.stages) + 1
                /\ LastStage(report') =
                      Stage("repair", "ok", "fixed on attempt " \o IntToStr(hist'.checks))]_vars

\* the third re-run of the check passes after two fixes
C28_Witness ==
    /\ HasStageWith("repair", "ok")
    /\ hist.checks = 3
    /\ hist.fixes = 2
    /\ LastStage(report).detail = "fixed on attempt 3"

\* the step is an iteration of the repair loop whose check fails and which
\* applies no fix
NoFixApplied ==
    /\ pc = "repair"
    /\ hist'.checks = hist.checks + 1
    /\ hist'.last.ev # "check"
    /\ hist'.fixes = hist.fixes

\* C29: an attempt that applies no fix ends the loop: no further check is
\* run, the 'repair' stage is reported with status fail, and the run fails
\* even when attempts remain.
C29_NoFixStopsLoop ==
    /\ [][NoFixApplied =>
             /\ pc' = "return"
             /\ ~test_passed'
             /\ LastStage(report') = RepairFailed
             /\ ~report'.success]_vars
    /\ [][(pc \in {"return", "done"}) => (hist'.checks = hist.checks)]_vars

ImportSignature(t) ==
    Contains(Lower(t), "importerror") \/ Contains(Lower(t), "modulenotfounderror")

SyntaxSignature(t) == Contains(Lower(t), "syntaxerror")

\* C30: a pattern-based repair of an error text with an importerror or
\* modulenotfounderror signature, or with a syntaxerror signature and no
\* import signature, modifies no file and returns 'not fixed', whatever
\* other signatures the text contains.
C30_FirstRuleOnly ==
    [][(/\ pc = "repair"
        /\ ~llm
        /\ hist'.checks = hist.checks + 1
        /\ hist'.last.ev # "check"
        /\ ImportSignature(hist'.error) \/ SyntaxSignature(hist'.error)) =>
             /\ hist'.last = FixEv("notfixed")
             /\ fs' = fs]_vars

\* the indentationerror rule is the one that applies: its signature is in
\* the text and the signature of no earlier rule is
IndentationApplies(t) ==
    /\ Contains(Lower(t), "indentationerror")
    /\ ~ImportSignature(t)
    /\ ~SyntaxSignature(t)

\* the path the error text refers to: the first File "..." of the text
Referenced(t) == IF FileMatches(t) = {} THEN None ELSE search_file(t)

\* read_file(path) returns a text that is not taken for an error text: the
\* file exists and its text does not start with ERROR
CanRead(files, path) == ~StartsWith(read_file(files, path), "ERROR")

C31_WitnessNoFile ==
    /\ probe.done
    /\ IndentationApplies(probe.error_msg)
    /\ Referenced(probe.error_msg) = None
    /\ probe.result = "notfixed"

\* the referenced file cannot be read
C31_WitnessUnreadable ==
    /\ probe.done
    /\ IndentationApplies(probe.error_msg)
    /\ Referenced(probe.error_msg) = "/tmp/gone.py"
    /\ probe.result = "notfixed"

\* a file whose own text starts with ERROR counts as one that cannot be read
C31_WitnessErrorPrefix ==
    /\ probe.done
    /\ IndentationApplies(probe.error_msg)
    /\ Referenced(probe.error_msg) = "/projects/app/main.py"
    /\ StartsWith(probe.files["/projects/app/main.py"], "ERROR")
    /\ probe.result = "notfixed"

\* C32: a check output that contains the traceback marker, the substring
\* "Traceback" whose presence switches the success markers off, is classified
\* as failing whatever success markers it holds; an output with a failure
\* indicator and no success marker is classified as failing; and a missing
\* output (None) is classified as failing.
C32_TracebackAlwaysFailing ==
    probe.done =>
        /\ (probe.output # None /\ Contains(probe.output, "Traceback")) => probe.failing
        /\ (/\ probe.output # None
            /\ \E k \in 1..Len(failure_indicators) :
                    Contains(probe.output, failure_indicators[k])
            /\ ~Contains(probe.output, "OK")
            /\ ~Contains(probe.output, "passed")
            /\ ~EndsWith(Strip(probe.output), "0")) => probe.failing
        /\ probe.output = None => probe.failing

\* the same with the first failure indicator, "Traceback (most recent call
\* last)", as the marker
C32_TracebackHeaderFailing ==
    probe.done =>
        /\ (probe.output # None /\ Contains(probe.output, failure_indicators[1])) =>
              probe.failing
        /\ (/\ probe.output # None
            /\ \E k \in 1..Len(failure_indicators) :
                    Contains(probe.output, failure_indicators[k])
            /\ ~Contains(probe.output, "OK")
            /\ ~Contains(probe.output, "passed")
            /\ ~EndsWith(Strip(probe.output), "0")) => probe.failing
        /\ probe.output = None => probe.failing

\* an output with "Traceback" and a success marker is classified as passing
C32_TracebackPassing ==
    /\ probe.done
    /\ Contains(probe.output, "Traceback")
    /\ Contains(probe.output, "OK")
    /\ ~probe.failing

\* C33: when Setup finishes, the target directory and its repository both
\* exist and the stage has status ok; on a missing directory it reports
\* 'created', on an existing one 'exists' and changes nothing.
C33_SetupEnsuresDirAndRepo ==
    [][(pc = "setup") =>
          /\ fs'.dir
          /\ fs'.repo
          /\ LastStage(report').name = "setup"
          /\ LastStage(report').status = "ok"
          /\ LastStage(report').detail = (IF fs.dir THEN "exists" ELSE "created")
          /\ fs.dir => fs' = fs]_vars

\* Setup has reported 'exists' on a directory that is no repository
C33_ExistsWithoutRepo ==
    /\ HasStage("setup")
    /\ stages[1].detail = "exists"
    /\ ~fs.repo

\* Setup has reported 'created' and git init did not make a repository
C33_CreatedWithoutRepo ==
    /\ HasStage("setup")
    /\ stages[1].detail = "created"
    /\ ~fs.repo

\* C34: the Commit stage always reports status ok and leaves the success
\* flag true, whatever the commit command did, and the stage list is not
\* touched afterwards: every run that reaches Commit returns success = true.
C34_CommitAlwaysOk ==
    [][/\ (pc = "commit") =>
            /\ LastStage(report').name = "commit"
            /\ LastStage(report').status = "ok"
            /\ report'.success
       /\ (pc = "return" /\ HasStage("commit")) =>
            /\ returned' = <<TRUE>>
            /\ report' = report]_vars

\* a run whose commit command failed has returned success = true
C34_Witness ==
    /\ pc = "done"
    /\ returned = <<TRUE>>
    /\ LastStage(report).name = "commit"
    /\ StartsWith(LastStage(report).detail, "ERROR")
    /\ commits = 0

\* the goal's test command was blocked by run_command's safety filter
BlockedCheck(e) ==
    /\ e.ev = "check"
    /\ goal.has_test_cmd
    /\ ~check_safety(e.command)

\* the goal's test command ran and exited with a non-zero status
NonZeroCheck(e) ==
    /\ e.ev = "check"
    /\ goal.has_test_cmd
    /\ check_safety(e.command)
    /\ e.proc.kind = "exit"
    /\ e.proc.returncode # 0

\* C35: when the goal's test command exits with a non-zero status or is
\* blocked by the safety filter of run_command, whose result then starts with
\* ERROR, the verify stage has status fail.
C35_ErrorResultFailsVerify ==
    (/\ BlockedCheck(hist.verify) \/ NonZeroCheck(hist.verify)
     /\ StartsWith(hist.verify.output, "ERROR"))
    => HasStageWith("verify", "fail")

\* Verify passed a test command that exited with status 1
C35_NonZeroPassed ==
    /\ NonZeroCheck(hist.verify)
    /\ HasStageWith("verify", "ok")

\* Verify passed a test command that was never run
C35_BlockedPassed ==
    /\ BlockedCheck(hist.verify)
    /\ HasStageWith("verify", "ok")

\* C36: when the repair stage reports its result, the last thing the loop
\* did is not a fix that was applied: every applied fix has been followed by
\* a re-run of the check command.
C36_EveryFixRechecked ==
    HasStage("repair") => hist.last # FixEv("fixed")

\* three fixes were applied and the run is reported as failed although the
\* third one was never checked
C36_LastFixUnchecked ==
    /\ pc = "done"
    /\ returned = <<FALSE>>
    /\ HasStageWith("repair", "fail")
    /\ hist.fixes = MAX_FIX_ATTEMPTS
    /\ hist.checks = MAX_FIX_ATTEMPTS
    /\ hist.last = FixEv("fixed")

\* a step of _autonomous_cycle in which _generate_goal supplies the goal
GoalGenerated ==
    /\ agent.pc = "loop"
    /\ agent'.pc = "pipeline"
    /\ agent.current_goal = None

\* C37: _generate_goal returns a template whose name is in completed_goals
\* only when every template of the three catalogs has been completed, and
\* then both lists are reset; and it returns no template whose name is in
\* failed_goals while some template is neither completed nor failed.
C37_NoRepeatedWork ==
    [][GoalGenerated =>
         LET name == agent'.current_goal
             completed == agent.completed_goals
             failed == agent.failed_goals
         IN  /\ name \in AllTemplates
             /\ name \in completed =>
                   /\ AllTemplates \subseteq completed
                   /\ agent'.completed_goals = {}
                   /\ agent'.failed_goals = {}
             /\ name \in failed =>
                   ~ \E t \in AllTemplates : t \notin completed /\ t \notin failed]_vars

\* a basic template that has failed is the goal again while the advanced and
\* the system template have not been tried
C37_FailedRetriedFirst ==
    /\ agent.pc = "pipeline"
    /\ agent.current_goal \in PROJECT_TEMPLATES
    /\ agent.current_goal \in agent.dirs
    /\ agent.completed_goals = {}
    /\ agent.failed_goals = {}
    /\ cyc.runs = 1

\* C38: in autonomous mode every template of every catalog is eventually the
\* goal of a cycle, whatever the outcomes of the runs.
C38_EveryTemplateEventuallySelected ==
    \A t \in AllTemplates : <>(agent.current_goal = t)

\* a basic template has failed, is the only template available and is the
\* goal again, while no advanced or system template has been tried
C38_RetryingBasic ==
    /\ agent.pc = "pipeline"
    /\ agent.current_goal \in PROJECT_TEMPLATES
    /\ agent.dirs \subseteq PROJECT_TEMPLATES
    /\ agent.current_goal \in agent.dirs
    /\ agent.completed_goals = PROJECT_TEMPLATES \ {agent.current_goal}

\* when no run fails, every template is eventually the goal of a cycle
C38_SelectedWhenNothingFails ==
    \A t \in AllTemplates :
        <>(agent.current_goal = t \/ agent.failed_goals # {})

\* C39: when the pipeline run of an autonomous cycle has returned success,
\* the registry holds a record for the goal's name whose test_pass is true,
\* whether or not the project directory existed before the cycle.
C39_SucceededProjectRecorded ==
    [][(cyc'.returns # cyc.returns /\ cyc'.ret = <<TRUE>>) =>
          /\ agent.current_goal \in DOMAIN projects'
          /\ projects'[agent.current_goal].test_pass = <<TRUE>>]_vars

\* a run has succeeded on a directory that existed before the cycle, and
\* the registry has no record of the project
C39_SucceededUnregistered ==
    /\ cyc.autonomous_ran
    /\ cyc.ret = <<TRUE>>
    /\ \E name \in agent.completed_goals : name \notin DOMAIN projects

\* C40: in every Memory that has been constructed, over whatever files the
\* directory held, last_active_project is None or the name of a project of
\* the registry.
C40_LastActiveRegistered ==
    mem = "up" =>
        \/ state.last_active_project = None
        \/ state.last_active_project \in DOMAIN projects

\* the state file named a project and the registry file was replaced by the
\* default: the Memory constructed over them names a project it does not hold
C40_DanglingLastActive ==
    /\ mem = "up"
    /\ state_file.kind = "json"
    /\ projects_file.kind \in {"missing", "garbage"}
    /\ state.last_active_project = "cli_todo"
    /\ projects = DefaultProjects

=============================================================================
